---- MODULE Spec2Model ----
(***************************************************************************)
(* Verification model of the Properties 4 Creations client-side widgets.   *)
(*                                                                         *)
(*   RateLimiter     docs/js/utils/rateLimiter.js                          *)
(*   PropertyFilter  features/PropertyFilter.js (MIGRATION_READY.md)       *)
(*   FormValidator   _site/js/security/csrf-protection.js                  *)
(*   Accordion       docs/js/theme-toggle.js                               *)
(*   Modal           docs/js/components/Modal.js                           *)
(*   ComparisonSlider  deploy/js/comparison-slider.js                      *)
(*   ErrorHandler    unnamed/part_001                                      *)
(*   AriaLiveRegions deploy/js/utils/ariaLiveRegions.js                    *)
(*   auth            _site/js/auth.js, unnamed/part_000 (initAuthLinks)    *)
(*   ButtonUtils     unnamed/part_002                                      *)
(*   page entry      MIGRATION_READY.md (DOMContentLoaded)                 *)
(*   ImprovedCSRFProtection  unnamed/part_005                              *)
(*                                                                         *)
(* Each component has its own specification over its own variables; the    *)
(* variables of the other components stay at their initial value.          *)
(***************************************************************************)
EXTENDS Integers, Sequences, FiniteSets, TLC

(***************************************************************************)
(* Generic helpers                                                         *)
(***************************************************************************)
Max(a, b) == IF a >= b THEN a ELSE b

\* Math.ceil(a / b) for b > 0 (\div rounds towards minus infinity)
Ceil(a, b) == -((-a) \div b)

(***************************************************************************)
(* RateLimiter                                                             *)
(***************************************************************************)
VARIABLES
  now,          \* Date.now() as seen by the last call, in ms
  maxAttempts,  \* this.maxAttempts
  windowMs,     \* this.windowMs
  attempts,     \* this.attempts: Map key -> list of timestamps
  calls         \* history: the isAllowed calls made so far, with their results

rlVars == <<now, maxAttempts, windowMs, attempts, calls>>

\* PropertyFilter
VARIABLES
  allProperties,       \* this.allProperties
  filteredProperties,  \* this.filteredProperties
  filters,             \* this.filters
  controls,            \* the filter bar: value of each control, pressed tag buttons
  timers,              \* the pending setTimeout callbacks: [id, kind, remaining]
  debounceTimeout,     \* this.debounceTimeout: a timer id, 0 for null
  container,           \* what render() left in this.container
  resultsCount,        \* #results-count textContent
  resultsLabel,        \* #results-label textContent
  srNodes,             \* number of sr-only announcement nodes in document.body
  ops,                 \* number of user and API events so far
  hist                 \* history of the debounced inputs and of the last reset

pfVars == <<allProperties, filteredProperties, filters, controls, timers,
            debounceTimeout, container, resultsCount, resultsLabel, srNodes,
            ops, hist>>

\* FormValidator
VARIABLES
  form,            \* the form's validatable fields, in DOM order (<< >>: no form)
  fieldValues,     \* field id -> field.value
  fieldStates,     \* this.fieldStates: field id -> [touched, valid, errors]
  fieldUI,         \* field id -> [ariaInvalid, errorText, errorShown, shake]
  debounceTimers,  \* this.debounceTimers: field id -> timer id
  fvTimers,        \* the pending setTimeout callbacks: [id, kind, field, remaining]
  submitButton,    \* the [type="submit"] control: [disabled, text, originalText, rateLimited]
  formUI,          \* [loading, rateLimited, globalError, globalDisplay, novalidate]
  inFlight,        \* the onSubmit promises that have not settled yet (their ids)
  callbacks,       \* what the caller's onSubmit / onError callbacks have received
  focused,         \* id of the field that has the focus, "" for none
  fvOps,           \* number of user events so far
  fvHist           \* history of the last validation pass, burst and submit

fvVars == <<form, fieldValues, fieldStates, fieldUI, debounceTimers, fvTimers,
            submitButton, formUI, inFlight, callbacks, focused, fvOps, fvHist>>

\* Accordion
VARIABLES
  acOptions,  \* this.options: [allowMultiple, defaultOpen]
  acItems,    \* this.items with the attributes of each button and panel
  acTimers,   \* the pending animation clean-ups, oldest first: [kind, index, remaining]
  acToggles,  \* the onToggle calls made by the last operation
  acFocus,    \* index of the accordion button that has the focus, -1 for none
  acOps,      \* number of user and API events so far
  acHist      \* history: the last operation and the panels open before it

acVars == <<acOptions, acItems, acTimers, acToggles, acFocus, acOps, acHist>>

\* Modal
VARIABLES
  modalInstance,    \* the module's singleton: [created, options, activeModal, focusedElementBeforeModal]
  mdElements,       \* the modal elements: class, attributes and listeners of each
  mdDocument,       \* document: [activeElement, overflow, modalOpen, keydownListener]
  mdFrames,         \* the pending requestAnimationFrame callbacks, oldest first
  mdAnnouncements,  \* the screen-reader status elements in the body, oldest first
  mdCalls,          \* the onOpen / onClose calls made by the last handler
  mdOps,            \* number of user and API events so far
  mdHist            \* history: the last handler, the state before it, the focus at the last open

mdVars == <<modalInstance, mdElements, mdDocument, mdFrames, mdAnnouncements,
            mdCalls, mdOps, mdHist>>

\* ComparisonSlider
VARIABLES
  csSlider,     \* the instance: [mounted, position, isDragging, destroyed]
  csDom,        \* what setPosition, startDrag and endDrag write to the DOM
  csListeners,  \* the listeners registered on the handle, document and window: [target, type, fn]
  csBinds,      \* number of bound functions created so far
  csOps,        \* number of user and API events so far
  csHist        \* history: the last event and the slider and DOM before it

csVars == <<csSlider, csDom, csListeners, csBinds, csOps, csHist>>

\* Mounting: the elements the page holds for the components, the listeners,
\* DOM writes and timers their constructors and init methods have made, and
\* the constructors that have run
VARIABLES
  mtPage,
  mtListeners,
  mtDom,
  mtTimers,
  mtThrown,
  mtRan

mtVars == <<mtPage, mtListeners, mtDom, mtTimers, mtThrown, mtRan>>

\* the FormValidators of one page, each with the limiter its constructor built
VARIABLES
  shNow,       \* Date.now() as seen by the last submit
  shAttempts,  \* form -> this.rateLimiter.attempts of its FormValidator
  shCalls      \* history: the submits so far, with the limiter's answer

shVars == <<shNow, shAttempts, shCalls>>

\* RateLimiter.cleanup: the same calls on a limiter that cleanup never ran on
VARIABLES
  ckShadow,  \* the attempts map as it would be without any cleanup
  ckHist     \* history: the last operation, the cleanups so far, the map
             \* before the last cleanup

ckVars == <<ckShadow, ckHist>>

\* ErrorHandler
VARIABLES
  ehOptions,     \* this.options, and whether the page runs on localhost
  ehNow,         \* Date.now()
  errorLog,      \* this.errorLog
  recentErrors,  \* this.recentErrors: Map errorKey -> time of last handling
  toasts,        \* the number of notifications shown so far
  fetches,       \* the calls of the wrapped fetch that have not settled yet
  ehHist         \* history: the errors handled, the state before the last
                 \* handleError call, and what the last call did

ehVars == <<ehOptions, ehNow, errorLog, recentErrors, toasts, fetches, ehHist>>

\* this.validators, called directly
VARIABLES
  vlHist  \* history: the last call of a validator, and what it returned on
          \* each of two forms

vlVars == <<vlHist>>

\* new FormValidator(form, options): the options, what the constructor gave
\* and the submits the limiter has seen
VARIABLES
  cfValidator

cfVars == <<cfValidator>>

\* AriaLiveRegions: the queue, the flag, the processQueue calls that are
\* suspended in a delay, the text of the two regions and what was delivered
VARIABLES
  announcementQueue, isProcessing, arLoops, arRegions, arDelivered, arTimerCount, arOps

arVars == <<announcementQueue, isProcessing, arLoops, arRegions, arDelivered, arTimerCount, arOps>>

\* auth: the exported object, the token in localStorage, the requests in
\* flight, the content of the auth-links container, and history
VARIABLES
  auth, localStorage, auRequests, authLinks, auIssued, auOps, auHist

auVars == <<auth, localStorage, auRequests, authLinks, auIssued, auOps, auHist>>

\* a page with ButtonUtils and a FormValidator on the same form: the form
\* and its submit control
VARIABLES
  buForm

buVars == <<buForm>>

\* the properties page: the embedded data, the PropertyFilter the entry
\* point constructs from it, and the criteria set on it
VARIABLES
  pgData, pgFilter, pgOps

pgVars == <<pgData, pgFilter, pgOps>>

\* ImprovedCSRFProtection: the csrf_token cookie, the instance, the forms of
\* the page, the time since the refresh interval last fired, and history
VARIABLES
  dcCookie, dcInstance, dcForms, dcSinceRefresh, dcClock, dcOps, dcHist

dcVars == <<dcCookie, dcInstance, dcForms, dcSinceRefresh, dcClock, dcOps, dcHist>>

vars == <<rlVars, pfVars, fvVars, acVars, mdVars, csVars, mtVars, shVars, ckVars, ehVars, vlVars, cfVars, arVars, auVars, buVars, pgVars, dcVars>>

\* what the actions of each component leave alone
FrameRL == <<pfVars, fvVars, acVars, mdVars, csVars, mtVars, shVars, ckVars, ehVars, vlVars, cfVars, arVars, auVars, buVars, pgVars, dcVars>>
FramePF == <<rlVars, fvVars, acVars, mdVars, csVars, mtVars, shVars, ckVars, ehVars, vlVars, cfVars, arVars, auVars, buVars, pgVars, dcVars>>
FrameFV == <<pfVars, acVars, mdVars, csVars, mtVars, shVars, ckVars, ehVars, vlVars, cfVars, arVars, auVars, buVars, pgVars, dcVars>>
FrameAC == <<rlVars, pfVars, fvVars, mdVars, csVars, mtVars, shVars, ckVars, ehVars, vlVars, cfVars, arVars, auVars, buVars, pgVars, dcVars>>
FrameMD == <<rlVars, pfVars, fvVars, acVars, csVars, mtVars, shVars, ckVars, ehVars, vlVars, cfVars, arVars, auVars, buVars, pgVars, dcVars>>
FrameCS == <<rlVars, pfVars, fvVars, acVars, mdVars, mtVars, shVars, ckVars, ehVars, vlVars, cfVars, arVars, auVars, buVars, pgVars, dcVars>>
FrameMT == <<rlVars, pfVars, fvVars, acVars, mdVars, csVars, shVars, ckVars, ehVars, vlVars, cfVars, arVars, auVars, buVars, pgVars, dcVars>>
FrameSH == <<rlVars, pfVars, fvVars, acVars, mdVars, csVars, mtVars, ckVars, ehVars, vlVars, cfVars, arVars, auVars, buVars, pgVars, dcVars>>
FrameCK == <<pfVars, fvVars, acVars, mdVars, csVars, mtVars, shVars, ehVars, vlVars, cfVars, arVars, auVars, buVars, pgVars, dcVars>>
FrameEH == <<rlVars, pfVars, fvVars, acVars, mdVars, csVars, mtVars, shVars, ckVars, vlVars, cfVars, arVars, auVars, buVars, pgVars, dcVars>>
FrameVL == <<rlVars, pfVars, fvVars, acVars, mdVars, csVars, mtVars, shVars, ckVars, ehVars, cfVars, arVars, auVars, buVars, pgVars, dcVars>>
FrameCF == <<rlVars, pfVars, fvVars, acVars, mdVars, csVars, mtVars, shVars, ckVars, ehVars, vlVars, arVars, auVars, buVars, pgVars, dcVars>>
FrameAR == <<rlVars, pfVars, fvVars, acVars, mdVars, csVars, mtVars, shVars, ckVars, ehVars, vlVars, cfVars, auVars, buVars, pgVars, dcVars>>
FrameAU == <<rlVars, pfVars, fvVars, acVars, mdVars, csVars, mtVars, shVars, ckVars, ehVars, vlVars, cfVars, arVars, buVars, pgVars, dcVars>>
FrameBU == <<rlVars, pfVars, fvVars, acVars, mdVars, csVars, mtVars, shVars, ckVars, ehVars, vlVars, cfVars, arVars, auVars, pgVars, dcVars>>
FramePG == <<rlVars, pfVars, fvVars, acVars, mdVars, csVars, mtVars, shVars, ckVars, ehVars, vlVars, cfVars, arVars, auVars, buVars, dcVars>>
FrameDC == <<rlVars, pfVars, fvVars, acVars, mdVars, csVars, mtVars, shVars, ckVars, ehVars, vlVars, cfVars, arVars, auVars, buVars, pgVars>>

\* bounds of the exploration
MaxCalls == 5
Keys == {"ip", "fp"}
ClockSteps == {0, 1, 1000, 2000}
\* the <<maxAttempts, windowMs>> pairs the limiter is constructed with
RLConfigs == {<<2, 2000>>, <<3, 3000>>}

\* this.attempts.get(key) || []
MapGet(map, key) == IF key \in DOMAIN map THEN map[key] ELSE <<>>

\* this.attempts.set(key, value)
MapSet(map, key, value) ==
  [k \in (DOMAIN map) \cup {key} |-> IF k = key THEN value ELSE map[k]]

\* faulty variant: an attempt exactly windowMs old is still counted
PruneInclusive(userAttempts, t, w) ==
  SelectSeq(userAttempts, LAMBDA ts : t - ts <= w)

\* userAttempts.filter((timestamp) => now - timestamp < this.windowMs)
Prune(userAttempts, t, w) ==
  SelectSeq(userAttempts, LAMBDA ts : t - ts < w)

\* faulty variant: one attempt too many gets through
LimitExceededOffByOne(validAttempts, max) == Len(validAttempts) > max

\* validAttempts.length >= this.maxAttempts
LimitExceeded(validAttempts, max) == Len(validAttempts) >= max

\* Math.max(1, Math.ceil((oldestAttempt + this.windowMs - now) / 1000))
RetryAfter(validAttempts, t, w) ==
  Max(1, Ceil(validAttempts[1] + w - t, 1000))

\* faulty variant: the rejected attempt is recorded too
RejectedMapRecording(map, key, validAttempts, t) ==
  MapSet(map, key, Append(validAttempts, t))

\* the map after a rejected call: the code returns before any set()
RejectedMap(map, key, validAttempts, t) == map

\* the map after an allowed call: push(now) then set(key, validAttempts)
AllowedMap(map, key, validAttempts, t) ==
  MapSet(map, key, Append(validAttempts, t))

\* RateLimiter.isAllowed(key) evaluated at clock value t: result and new map
isAllowed(map, key, t, max, w) ==
  LET userAttempts == MapGet(map, key)
      validAttempts == Prune(userAttempts, t, w)
  IN IF LimitExceeded(validAttempts, max)
       THEN [allowed |-> FALSE,
             retryAfter |-> RetryAfter(validAttempts, t, w),
             attempts |-> Len(validAttempts),
             remainingAttempts |-> -1,
             map |-> RejectedMap(map, key, validAttempts, t)]
       ELSE [allowed |-> TRUE,
             retryAfter |-> -1,
             attempts |-> Len(validAttempts) + 1,
             remainingAttempts |-> max - (Len(validAttempts) + 1),
             map |-> AllowedMap(map, key, validAttempts, t)]

\* new RateLimiter(maxAttempts, windowMs)
RLInit ==
  /\ now = 0
  /\ \E cfg \in RLConfigs : maxAttempts = cfg[1] /\ windowMs = cfg[2]
  /\ attempts = << >>
  /\ calls = << >>

\* a call of isAllowed(key), made dt ms after the previous call
IsAllowedCall(key, dt) ==
  /\ Len(calls) < MaxCalls
  /\ now' = now + dt
  /\ LET r == isAllowed(attempts, key, now', maxAttempts, windowMs)
     IN /\ attempts' = r.map
        /\ calls' = Append(calls, [key |-> key, now |-> now',
                                   allowed |-> r.allowed,
                                   retryAfter |-> r.retryAfter,
                                   remainingAttempts |-> r.remainingAttempts,
                                   before |-> attempts,
                                   after |-> r.map])
  /\ UNCHANGED <<maxAttempts, windowMs>>
  /\ UNCHANGED FrameRL

RLNext == \E key \in Keys, dt \in ClockSteps : IsAllowedCall(key, dt)

\* Math.min(...userAttempts) of a non-empty array
MathMin(userAttempts) ==
  CHOOSE x \in {userAttempts[i] : i \in 1..Len(userAttempts)} :
    \A i \in 1..Len(userAttempts) : x <= userAttempts[i]

\* RateLimiter.getTimeUntilReset(key) evaluated at clock value t
getTimeUntilReset(map, key, t, w) ==
  LET userAttempts == MapGet(map, key)
  IN IF Len(userAttempts) = 0 THEN 0
     ELSE Max(0, Ceil(MathMin(userAttempts) + w - t, 1000))

\* C32: at any instant getTimeUntilReset(key) is 0 when the key is not rate
\* limited (fewer than maxAttempts attempts younger than windowMs), and
\* otherwise the retryAfter that isAllowed(key) reports at that instant.
C32_TimeUntilReset ==
  \A key \in Keys, dt \in ClockSteps :
    LET t == now + dt
        validAttempts == Prune(MapGet(attempts, key), t, windowMs)
    IN getTimeUntilReset(attempts, key, t, windowMs) =
         IF LimitExceeded(validAttempts, maxAttempts)
           THEN isAllowed(attempts, key, t, maxAttempts, windowMs).retryAfter
           ELSE 0


(***************************************************************************)
(* Strings are sequences of one-character strings                          *)
(***************************************************************************)
\* the value of an absent field (undefined)
Undefined == <<"undefined">>

\* the `null` of an optional numeric criterion, and a present number
Null == << >>
Some(n) == <<n>>

\* x || ''
OrEmpty(x) == IF x = Undefined THEN << >> ELSE x

LowerChar(c) ==
    CASE c = "A" -> "a" []
         c = "B" -> "b" []
         c = "C" -> "c" []
         c = "D" -> "d" []
         c = "E" -> "e" []
         c = "F" -> "f" []
         c = "G" -> "g" []
         c = "H" -> "h" []
         c = "I" -> "i" []
         c = "J" -> "j" []
         c = "K" -> "k" []
         c = "L" -> "l" []
         c = "M" -> "m" []
         c = "N" -> "n" []
         c = "O" -> "o" []
         c = "P" -> "p" []
         c = "Q" -> "q" []
         c = "R" -> "r" []
         c = "S" -> "s" []
         c = "T" -> "t" []
         c = "U" -> "u" []
         c = "V" -> "v" []
         c = "W" -> "w" []
         c = "X" -> "x" []
         c = "Y" -> "y" []
         c = "Z" -> "z" []
         OTHER -> c

\* String.prototype.toLowerCase
toLowerCase(str) == [i \in 1..Len(str) |-> LowerChar(str[i])]

\* String.prototype.trim
trim(str) ==
  LET Inner == {i \in 1..Len(str) : str[i] # " "}
  IN IF Inner = {} THEN << >>
     ELSE LET first == CHOOSE i \in Inner : \A j \in Inner : i <= j
              last == CHOOSE i \in Inner : \A j \in Inner : i >= j
          IN SubSeq(str, first, last)

\* String.prototype.includes / Array.prototype.includes
includes(hay, needle) ==
  \E i \in 0..(Len(hay) - Len(needle)) : SubSeq(hay, i + 1, i + Len(needle)) = needle

arrayIncludes(arr, x) == \E i \in 1..Len(arr) : arr[i] = x

\* Array.prototype.indexOf, 0-based, -1 when absent
indexOf(arr, x) ==
  IF arrayIncludes(arr, x)
    THEN (CHOOSE i \in 1..Len(arr) : arr[i] = x /\ \A j \in 1..(i - 1) : arr[j] # x) - 1
    ELSE -1

\* Array.prototype.splice(index, 1)
splice1(arr, index) == SubSeq(arr, 1, index) \o SubSeq(arr, index + 2, Len(arr))

DigitValue(c) ==
    CASE c = "0" -> 0 [] c = "1" -> 1 [] c = "2" -> 2 [] c = "3" -> 3 []
         c = "4" -> 4 [] c = "5" -> 5 [] c = "6" -> 6 [] c = "7" -> 7 []
         c = "8" -> 8 [] c = "9" -> 9 [] OTHER -> -1

\* parseInt(str, 10) of a control value that starts with a digit: the
\* leading digits, read in base 10
parseInt(str) ==
  LET Stop == {i \in 1..Len(str) : DigitValue(str[i]) = -1}
      n == IF Stop = {} THEN Len(str)
           ELSE (CHOOSE i \in Stop : \A j \in Stop : i <= j) - 1
      Val[i \in 0..n] == IF i = 0 THEN 0 ELSE Val[i - 1] * 10 + DigitValue(str[i])
  IN Val[n]

\* value ? parseInt(value, 10) : null
parseOrNull(value) == IF value = << >> THEN Null ELSE Some(parseInt(value))

(***************************************************************************)
(* PropertyFilter: data                                                    *)
(***************************************************************************)

\* the default criteria of the constructor and of resetFilters
DefaultFilters ==
  [bedrooms |-> Null, bathrooms |-> Null, tags |-> << >>, search |-> << >>,
   minPrice |-> Null, maxPrice |-> Null, propertyType |-> ""]

\* the property records used as inputs: every field of the data model that
\* applyFilters reads is present, except where marked Undefined
Oak ==
  [id |-> "oak", name |-> <<"O", "a", "k">>, address |-> <<"1", " ", "E", "l", "m">>,
   city |-> <<"T", "y">>, description |-> Undefined,
   bedrooms |-> 3, bathrooms |-> 2, price_amount |-> 900, type |-> "Townhome",
   tags |-> <<"Section 8", "Pet Friendly">>]

Elm ==
  [id |-> "elm", name |-> <<"E", "l", "m">>, address |-> <<"2", " ", "A", "s", "h">>,
   city |-> <<"T", "y">>, description |-> <<"P", "e", "t", "s">>,
   bedrooms |-> 2, bathrooms |-> 1, price_amount |-> 800, type |-> "Studio",
   tags |-> <<"Pet Friendly">>]

Ash ==
  [id |-> "ash", name |-> <<"A", "s", "h">>, address |-> <<"3", " ", "O", "a", "k">>,
   city |-> <<"K", "y">>, description |-> << >>,
   bedrooms |-> 4, bathrooms |-> 3, price_amount |-> 1200, type |-> "Townhome",
   tags |-> Undefined]

Catalogue == {Oak, Elm, Ash}

\* the property lists handed to the constructor and to updateProperties:
\* every ordering of every subset of the catalogue
PropertyLists ==
  {list \in UNION {[1..n -> Catalogue] : n \in 0..Cardinality(Catalogue)} :
     \A i, j \in 1..Len(list) : i # j => list[i] # list[j]}

(***************************************************************************)
(* PropertyFilter.applyFilters: the predicate of the filter callback       *)
(***************************************************************************)
\* `${name || ''} ${address || ''} ${city || ''} ${description || ''}`.toLowerCase()
searchable(prop) ==
  toLowerCase(OrEmpty(prop.name) \o <<" ">> \o OrEmpty(prop.address) \o <<" ">>
              \o OrEmpty(prop.city) \o <<" ">> \o OrEmpty(prop.description))

\* if (filters.search) { if (!searchable.includes(filters.search)) return false }
SearchTest(prop, f) == f.search # << >> => includes(searchable(prop), f.search)

\* faulty variant: a property with exactly the minimum is dropped
BedroomTestStrict(prop, f) == ~(f.bedrooms # Null /\ prop.bedrooms <= f.bedrooms[1])

\* filters.bedrooms !== null && prop.bedrooms < filters.bedrooms => false
BedroomTest(prop, f) == ~(f.bedrooms # Null /\ prop.bedrooms < f.bedrooms[1])

\* filters.bathrooms !== null && prop.bathrooms < filters.bathrooms => false
BathroomTest(prop, f) == ~(f.bathrooms # Null /\ prop.bathrooms < f.bathrooms[1])

\* faulty variant: the type is compared even when no type is selected
TypeTestUnguarded(prop, f) == ~(prop.type # f.propertyType)

\* filters.propertyType && prop.type !== filters.propertyType => false
TypeTest(prop, f) == ~(f.propertyType # "" /\ prop.type # f.propertyType)

\* minPrice !== null && price_amount < minPrice => false; the same for maxPrice
PriceTest(prop, f) ==
  /\ ~(f.minPrice # Null /\ prop.price_amount < f.minPrice[1])
  /\ ~(f.maxPrice # Null /\ prop.price_amount > f.maxPrice[1])

\* faulty variant: one of the selected tags is enough (some, not every)
TagTestAny(prop, f) ==
  Len(f.tags) > 0 =>
    LET propTags == IF prop.tags = Undefined THEN << >> ELSE prop.tags
    IN \E i \in 1..Len(f.tags) : arrayIncludes(propTags, f.tags[i])

\* tags.length > 0: propTags = prop.tags || []; tags.every(t => propTags.includes(t))
TagTest(prop, f) ==
  Len(f.tags) > 0 =>
    LET propTags == IF prop.tags = Undefined THEN << >> ELSE prop.tags
    IN \A i \in 1..Len(f.tags) : arrayIncludes(propTags, f.tags[i])

Passes(prop, f) ==
  /\ SearchTest(prop, f)
  /\ BedroomTest(prop, f)
  /\ BathroomTest(prop, f)
  /\ TypeTest(prop, f)
  /\ PriceTest(prop, f)
  /\ TagTest(prop, f)

\* faulty variant: the passing elements are collected in reverse
FilterReversed(all, f) ==
  LET kept == SelectSeq(all, LAMBDA prop : Passes(prop, f))
  IN [i \in 1..Len(kept) |-> kept[Len(kept) + 1 - i]]

\* Array.prototype.filter keeps the passing elements in array order
Filter(all, f) == SelectSeq(all, LAMBDA prop : Passes(prop, f))

(***************************************************************************)
(* PropertyFilter: the widget                                              *)
(***************************************************************************)

\* this.debounceDelay
debounceDelay == 300

\* the delay after which announceToScreenReader removes its node
announceDelay == 1000

\* bounds of the exploration
MaxOps == 3
TimeSteps == {100, 300}

\* the values the user gives to the controls
SearchTexts == {<< >>, <<"O", "a", "k">>, <<" ", "e", "l", "m", " ">>}
BedroomOptions == {<< >>, <<"3">>}
BathroomOptions == {<< >>, <<"2">>}
TypeOptions == {"", "Townhome"}
PriceTexts == {<< >>, <<"8", "5", "0">>, <<"1", "0", "0", "0">>}
TagButtons == {"Section 8", "Pet Friendly"}

ResetMessage == "Filters reset. Showing all properties."

\* the controls as createFilterUI builds them and as resetFilters leaves them
ClearedControls ==
  [search |-> << >>, bedrooms |-> << >>, bathrooms |-> << >>, propertyType |-> "",
   minPrice |-> << >>, maxPrice |-> << >>, pressed |-> {}]

\* faulty variant: the search box keeps its text
ResetControlsKeepingSearch(c) == [ClearedControls EXCEPT !.search = c.search]

\* resetFilters: every control gets value '' and every tag button
\* aria-pressed="false"
ResetControls(c) == ClearedControls

\* render(): the no-results placeholder, or one card per filtered property
\* carrying data-property-id, in list order
Render(list) ==
  IF Len(list) = 0
    THEN [placeholder |-> TRUE, cards |-> << >>]
    ELSE [placeholder |-> FALSE, cards |-> [i \in 1..Len(list) |-> list[i].id]]

\* faulty variant: zero is treated as singular
ResultsLabelZeroSingular(n) == IF n <= 1 THEN "property found" ELSE "properties found"

\* updateResultsCount(): the label text
ResultsLabel(n) == IF n = 1 THEN "property found" ELSE "properties found"

\* faulty variant: the pending callback is not cancelled
clearTimeoutNoop(ts, id) == ts

\* clearTimeout(id): a no-op for an id that is not pending
clearTimeout(ts, id) == {t \in ts : t.id # id}

\* the id setTimeout returns: never one that is pending or still held
FreshId(ts, held) ==
  CHOOSE i \in 1..(Cardinality(ts) + 2) :
    /\ i # held
    /\ \A t \in ts : t.id # i
    /\ \A j \in 1..(i - 1) : j = held \/ \E t \in ts : t.id = j

\* setTimeout(callback, delay)
setTimeout(ts, id, kind, delay) == ts \cup {[id |-> id, kind |-> kind, remaining |-> delay]}

\* { ...this.filters, ...filters }
Merge(f, partial) ==
  [k \in DOMAIN f |-> IF k \in DOMAIN partial THEN partial[k] ELSE f[k]]

Pending(kind) == {t \in timers : t.kind = kind}

HistInit ==
  [n |-> 0, last |-> << >>, since |-> debounceDelay, commits |-> 0,
   commitValue |-> << >>, commitAt |-> -1, clean |-> TRUE, before |-> << >>,
   quietFor |-> debounceDelay, programmatic |-> FALSE,
   afterReset |-> FALSE, staleFired |-> FALSE, lastSaid |-> ""]

\* history: an event other than a search input touched the search control,
\* the debounce handle or the criteria; it also ends the period after a reset
Touched(h) == [h EXCEPT !.clean = FALSE, !.afterReset = FALSE, !.staleFired = FALSE]

\* history: an event that leaves the search debounce alone
Untouched(h) == [h EXCEPT !.afterReset = FALSE, !.staleFired = FALSE]

\* new PropertyFilter(properties, selector) followed by init(), container present
PFInit ==
  /\ allProperties \in PropertyLists
  /\ controls = ClearedControls
  /\ timers = {}
  /\ debounceTimeout = 0
  /\ srNodes = 0
  /\ ops = 0
  /\ filteredProperties = allProperties
  /\ filters = DefaultFilters
  /\ container = Render(allProperties)
  /\ resultsCount = Len(allProperties)
  /\ resultsLabel = ResultsLabel(Len(allProperties))
  /\ hist = HistInit

\* a user or API event: counted, and the rate limiter is not involved
Event == ops < MaxOps /\ ops' = ops + 1 /\ UNCHANGED FramePF

\* a timer callback or the passing of time
Internal == UNCHANGED ops /\ UNCHANGED FramePF

\* applyFilters() with the criteria f over the list all: filter, render,
\* updateResultsCount
ApplyFilters(all, f) ==
  /\ filteredProperties' = Filter(all, f)
  /\ container' = Render(Filter(all, f))
  /\ resultsCount' = Len(Filter(all, f))
  /\ resultsLabel' = ResultsLabel(Len(Filter(all, f)))

\* 'input' on #property-search: restart the debounce timer
SearchInput(v) ==
  /\ Event
  /\ v # controls.search
  /\ controls' = [controls EXCEPT !.search = v]
  /\ LET cleared == clearTimeout(timers, debounceTimeout)
         id == FreshId(cleared, debounceTimeout)
     IN /\ timers' = setTimeout(cleared, id, "search", debounceDelay)
        /\ debounceTimeout' = id
  /\ hist' = LET h == Untouched(hist)
             IN IF Pending("search") = {}
                  THEN [h EXCEPT !.n = 1, !.last = v, !.since = 0, !.commits = 0,
                                 !.commitValue = << >>, !.commitAt = -1,
                                 !.clean = TRUE, !.before = filters.search,
                                 !.quietFor = 0]
                  ELSE [h EXCEPT !.n = @ + 1, !.last = v, !.since = 0, !.quietFor = 0]
  /\ UNCHANGED <<allProperties, filteredProperties, filters, container,
                 resultsCount, resultsLabel, srNodes>>

\* 'keydown' Escape on #property-search
SearchEscape ==
  /\ Event
  /\ controls' = [controls EXCEPT !.search = << >>]
  /\ filters' = [filters EXCEPT !.search = << >>]
  /\ ApplyFilters(allProperties, filters')
  /\ hist' = Touched(hist)
  /\ UNCHANGED <<allProperties, timers, debounceTimeout, srNodes>>

\* 'change' on #filter-bedrooms
BedroomChange(v) ==
  /\ Event
  /\ v # controls.bedrooms
  /\ controls' = [controls EXCEPT !.bedrooms = v]
  /\ filters' = [filters EXCEPT !.bedrooms = parseOrNull(v)]
  /\ ApplyFilters(allProperties, filters')
  /\ hist' = Untouched(hist)
  /\ UNCHANGED <<allProperties, timers, debounceTimeout, srNodes>>

\* 'change' on #filter-bathrooms
BathroomChange(v) ==
  /\ Event
  /\ v # controls.bathrooms
  /\ controls' = [controls EXCEPT !.bathrooms = v]
  /\ filters' = [filters EXCEPT !.bathrooms = parseOrNull(v)]
  /\ ApplyFilters(allProperties, filters')
  /\ hist' = Untouched(hist)
  /\ UNCHANGED <<allProperties, timers, debounceTimeout, srNodes>>

\* 'change' on #filter-property-type
TypeChange(v) ==
  /\ Event
  /\ v # controls.propertyType
  /\ controls' = [controls EXCEPT !.propertyType = v]
  /\ filters' = [filters EXCEPT !.propertyType = v]
  /\ ApplyFilters(allProperties, filters')
  /\ hist' = Untouched(hist)
  /\ UNCHANGED <<allProperties, timers, debounceTimeout, srNodes>>

\* 'input' on #filter-min-price or #filter-max-price (which = "minPrice" or
\* "maxPrice"): restart the debounce timer with handlePriceChange
PriceInput(which, v) ==
  /\ Event
  /\ v # controls[which]
  /\ controls' = [controls EXCEPT ![which] = v]
  /\ LET cleared == clearTimeout(timers, debounceTimeout)
         id == FreshId(cleared, debounceTimeout)
     IN /\ timers' = setTimeout(cleared, id, "price", debounceDelay)
        /\ debounceTimeout' = id
  /\ hist' = [Touched(hist) EXCEPT !.quietFor = 0]
  /\ UNCHANGED <<allProperties, filteredProperties, filters, container,
                 resultsCount, resultsLabel, srNodes>>

\* 'click' on a .tag-filter button
TagClick(tag) ==
  /\ Event
  /\ LET index == indexOf(filters.tags, tag)
     IN IF index > -1
          THEN /\ filters' = [filters EXCEPT !.tags = splice1(@, index)]
               /\ controls' = [controls EXCEPT !.pressed = @ \ {tag}]
          ELSE /\ filters' = [filters EXCEPT !.tags = Append(@, tag)]
               /\ controls' = [controls EXCEPT !.pressed = @ \cup {tag}]
  /\ ApplyFilters(allProperties, filters')
  /\ hist' = Untouched(hist)
  /\ UNCHANGED <<allProperties, timers, debounceTimeout, srNodes>>

\* resetFilters(), with announceToScreenReader
ResetFilters ==
  /\ Event
  /\ filters' = DefaultFilters
  /\ controls' = ResetControls(controls)
  /\ filteredProperties' = allProperties
  /\ container' = Render(allProperties)
  /\ resultsCount' = Len(allProperties)
  /\ resultsLabel' = ResultsLabel(Len(allProperties))
  /\ srNodes' = srNodes + 1
  /\ timers' = setTimeout(timers, FreshId(timers, debounceTimeout), "announce", announceDelay)
  /\ hist' = [hist EXCEPT !.clean = FALSE, !.programmatic = FALSE,
                          !.afterReset = TRUE, !.staleFired = FALSE,
                          !.lastSaid = ResetMessage]
  /\ UNCHANGED <<allProperties, debounceTimeout>>

\* 'click' on #reset-filters
ResetClick == ResetFilters

\* 'click' on #no-results-reset, which exists while the placeholder is shown
NoResultsResetClick == container.placeholder /\ ResetFilters

\* setFilters(partial)
SetFilters(partial) ==
  /\ Event
  /\ filters' = Merge(filters, partial)
  /\ ApplyFilters(allProperties, filters')
  /\ hist' = [Touched(hist) EXCEPT !.programmatic = TRUE]
  /\ UNCHANGED <<allProperties, controls, timers, debounceTimeout, srNodes>>

\* updateProperties(properties)
UpdateProperties(properties) ==
  /\ Event
  /\ allProperties' = properties
  /\ ApplyFilters(properties, filters)
  /\ hist' = Untouched(hist)
  /\ UNCHANGED <<filters, controls, timers, debounceTimeout, srNodes>>

\* a due timer runs its callback
TimerFire(t) ==
  /\ Internal
  /\ t \in timers
  /\ t.remaining = 0
  /\ timers' = timers \ {t}
  /\ CASE t.kind = "search" ->
            /\ filters' = [filters EXCEPT !.search = trim(toLowerCase(controls.search))]
            /\ ApplyFilters(allProperties, filters')
            /\ hist' = [hist EXCEPT !.commits = @ + 1,
                                    !.commitValue = filters'.search,
                                    !.commitAt = hist.since,
                                    !.staleFired = hist.afterReset]
            /\ UNCHANGED srNodes
       [] t.kind = "price" ->
            /\ filters' = [filters EXCEPT !.minPrice = parseOrNull(controls.minPrice),
                                          !.maxPrice = parseOrNull(controls.maxPrice)]
            /\ ApplyFilters(allProperties, filters')
            /\ hist' = [hist EXCEPT !.staleFired = hist.afterReset]
            /\ UNCHANGED srNodes
       [] t.kind = "announce" ->
            /\ srNodes' = srNodes - 1
            /\ UNCHANGED <<filters, filteredProperties, container, resultsCount,
                           resultsLabel, hist>>
  /\ UNCHANGED <<allProperties, controls, debounceTimeout>>

\* history: elapsed times are followed up to the debounce delay
Capped(ms) == IF ms > debounceDelay THEN debounceDelay ELSE ms

\* dt ms pass; no timer is overdue
Advance(dt) ==
  /\ Internal
  /\ dt > 0
  /\ \A t \in timers : t.remaining >= dt
  /\ timers' = {[t EXCEPT !.remaining = @ - dt] : t \in timers}
  /\ hist' = [hist EXCEPT !.since = Capped(@ + dt), !.quietFor = Capped(@ + dt)]
  /\ UNCHANGED <<allProperties, filteredProperties, filters, controls,
                 debounceTimeout, container, resultsCount, resultsLabel, srNodes>>

\* the criteria setFilters is called with in the event-driven specification
FewPartials ==
  {[search |-> <<"a", "s", "h">>], [bedrooms |-> Some(4), tags |-> <<"Pet Friendly">>]}

PFEvent ==
  \/ \E v \in SearchTexts : SearchInput(v)
  \/ SearchEscape
  \/ \E v \in BedroomOptions : BedroomChange(v)
  \/ \E v \in BathroomOptions : BathroomChange(v)
  \/ \E v \in TypeOptions : TypeChange(v)
  \/ \E which \in {"minPrice", "maxPrice"}, v \in PriceTexts : PriceInput(which, v)
  \/ \E tag \in TagButtons : TagClick(tag)
  \/ ResetClick
  \/ NoResultsResetClick
  \/ \E partial \in FewPartials : SetFilters(partial)
  \/ \E properties \in {<<Ash, Oak>>, << >>} : UpdateProperties(properties)

PFNext ==
  \/ PFEvent
  \/ \E t \in timers : TimerFire(t)
  \/ \E dt \in TimeSteps \cup {t.remaining : t \in timers} : Advance(dt)

\* the rate limiter as the form presets construct it, not in use
RLIdle == RLInit /\ maxAttempts = 3

\* the page's filter: starts from the full catalogue
PFStart == PFInit /\ allProperties = <<Oak, Elm, Ash>>

(***************************************************************************)
(* The filter driven through its API: every property list, many criteria   *)
(***************************************************************************)
\* the criteria objects setFilters is first called with
Criteria ==
  [bedrooms : {Null, Some(3)},
   bathrooms : {Null, Some(2)},
   tags : {<< >>, <<"Pet Friendly">>, <<"HUD-VASH">>},
   search : {<< >>, <<"o", "a", "k">>, <<"k", " ", "1">>},
   minPrice : {Null, Some(900)},
   maxPrice : {Null, Some(1000)},
   propertyType : {"", "Townhome"}]

\* new PropertyFilter(properties, selector), init(), then setFilters(c):
\* one API event has happened
FilterInit ==
  /\ allProperties \in PropertyLists
  /\ controls = ClearedControls
  /\ timers = {}
  /\ debounceTimeout = 0
  /\ srNodes = 0
  /\ ops = 1
  /\ \E c \in Criteria :
       /\ filters = Merge(DefaultFilters, c)
       /\ filteredProperties = Filter(allProperties, filters)
       /\ container = Render(filteredProperties)
       /\ resultsCount = Len(filteredProperties)
       /\ resultsLabel = ResultsLabel(Len(filteredProperties))
       /\ hist = [HistInit EXCEPT !.programmatic = TRUE]

FilterNext ==
  \/ \E tag \in TagButtons \cup {"HUD-VASH"} : TagClick(tag)
  \/ ResetClick
  \/ NoResultsResetClick

(***************************************************************************)
(* RateLimiter: claims                                                     *)
(***************************************************************************)
\* the calls made for one key, in call order
KeyCalls(k) == SelectSeq(calls, LAMBDA c : c.key = k)

\* the times of the allowed calls for key k among the first n calls that
\* are still inside the window at time t, oldest first
AllowedInWindow(k, n, t) ==
  LET Times[i \in 0..n] ==
        IF i = 0 THEN << >>
        ELSE IF calls[i].key = k /\ calls[i].allowed /\ t - calls[i].now < windowMs
               THEN Append(Times[i - 1], calls[i].now)
               ELSE Times[i - 1]
  IN Times[n]

\* C1: for every key the stored attempt list never holds more than
\* maxAttempts entries, and every window of length windowMs (taken up to
\* and including an allowed call) contains at most maxAttempts allowed calls.
C1_WindowCap ==
  \A k \in Keys :
    /\ Len(MapGet(attempts, k)) <= maxAttempts
    /\ \A i \in 1..Len(calls) :
         (calls[i].key = k /\ calls[i].allowed)
           => Len(AllowedInWindow(k, i, calls[i].now)) <= maxAttempts

\* C1 witness: a key was rejected and later allowed again, so that more than
\* maxAttempts calls were allowed in total while the window rolled.
C1_Witness ==
  \E k \in Keys :
    /\ Len(SelectSeq(KeyCalls(k), LAMBDA c : c.allowed)) > maxAttempts
    /\ \E i \in 1..Len(KeyCalls(k)) : ~KeyCalls(k)[i].allowed

\* C2: the first maxAttempts calls of a key are allowed; call maxAttempts+1,
\* when still inside the window opened by the first attempt, is rejected with
\* retryAfter > 0; the first call made once windowMs has elapsed since the
\* first attempt is allowed again.
C2_WindowScenario ==
  \A k \in Keys :
    LET s == KeyCalls(k)
        N == maxAttempts
    IN /\ \A i \in 1..Len(s) : i <= N => s[i].allowed
       /\ (Len(s) > N /\ s[N + 1].now - s[1].now < windowMs)
            => (~s[N + 1].allowed /\ s[N + 1].retryAfter > 0)
       /\ \A j \in (N + 1)..Len(s) :
            ( /\ s[j].now - s[1].now >= windowMs
              /\ \A i \in (N + 1)..(j - 1) : s[i].now - s[1].now < windowMs )
              => s[j].allowed

\* C2 witness: N allowed calls, a rejected call N+1 inside the window, and a
\* later call at or after first + windowMs that is allowed.
C2_Witness ==
  \E k \in Keys :
    LET s == KeyCalls(k)
        N == maxAttempts
    IN /\ Len(s) >= N + 2
       /\ ~s[N + 1].allowed
       /\ s[Len(s)].now - s[1].now >= windowMs
       /\ s[Len(s)].allowed

\* C3: a rejected call returns retryAfter = max(1, ceil((oldest non-expired
\* attempt + windowMs - now) / 1000)) and leaves the attempts map unchanged;
\* an allowed call stores the non-expired attempts followed by now, and
\* touches no other key.
C3_RejectRecordsNothing ==
  \A i \in 1..Len(calls) :
    LET c == calls[i]
        inWindow == AllowedInWindow(c.key, i - 1, c.now)
    IN /\ ~c.allowed =>
            /\ c.after = c.before
            /\ Len(inWindow) >= maxAttempts
            /\ c.retryAfter = Max(1, Ceil(inWindow[1] + windowMs - c.now, 1000))
       /\ c.allowed =>
            /\ Len(inWindow) < maxAttempts
            /\ MapGet(c.after, c.key) = Append(inWindow, c.now)
            /\ \A k \in Keys \ {c.key} : MapGet(c.after, k) = MapGet(c.before, k)
       /\ (i = Len(calls)) => attempts = c.after

\* C3 witness: a call was rejected with a retryAfter above the minimum, and
\* the same key was allowed again afterwards.
C3_Witness ==
  \E i \in 1..Len(calls) :
    /\ ~calls[i].allowed
    /\ calls[i].retryAfter > 1
    /\ \E j \in (i + 1)..Len(calls) :
         calls[j].key = calls[i].key /\ calls[j].allowed

(***************************************************************************)
(* PropertyFilter: claims                                                  *)
(***************************************************************************)
\* the lower-case text of a property that a search is matched against
PropertyText(p) ==
  LET Part(x) == IF x = Undefined THEN << >> ELSE x
  IN toLowerCase(Part(p.name) \o <<" ">> \o Part(p.address) \o <<" ">>
                 \o Part(p.city) \o <<" ">> \o Part(p.description))

\* the tags of a property, as a set
PropertyTags(p) ==
  IF p.tags = Undefined THEN {} ELSE {p.tags[i] : i \in 1..Len(p.tags)}

\* a property satisfies all active criteria
Satisfies(p, c) ==
  /\ c.search = << >> \/
       LET text == PropertyText(p)
       IN \E i \in 1..(Len(text) - Len(c.search) + 1) :
            SubSeq(text, i, i + Len(c.search) - 1) = c.search
  /\ c.bedrooms = Null \/ p.bedrooms >= c.bedrooms[1]
  /\ c.bathrooms = Null \/ p.bathrooms >= c.bathrooms[1]
  /\ c.propertyType = "" \/ p.type = c.propertyType
  /\ c.minPrice = Null \/ c.minPrice[1] <= p.price_amount
  /\ c.maxPrice = Null \/ p.price_amount <= c.maxPrice[1]
  /\ {c.tags[i] : i \in 1..Len(c.tags)} \subseteq PropertyTags(p)

\* the positions of allProperties whose property satisfies the criteria
SatisfyingPositions == {i \in 1..Len(allProperties) : Satisfies(allProperties[i], filters)}

\* C4: after every event and every timer callback, filteredProperties is
\* exactly the list of the properties of allProperties that satisfy all
\* active criteria (search substring, bedrooms >= min, bathrooms >= min,
\* type equality, minPrice <= price_amount <= maxPrice, tags subset).
C4_FilteredMatchesCriteria ==
  LET sat == SatisfyingPositions
  IN /\ Len(filteredProperties) = Cardinality(sat)
     /\ \A i \in 1..Len(filteredProperties) :
          \E k \in sat :
            /\ filteredProperties[i] = allProperties[k]
            /\ Cardinality({m \in sat : m < k}) = i - 1

\* C4 witness: a debounced search commit and a tag toggle are both active,
\* with a bedroom minimum, and they keep one property of three.
C4_Witness ==
  /\ hist.commits >= 1
  /\ filters.search # << >>
  /\ Len(filters.tags) >= 1
  /\ filters.bedrooms # Null
  /\ Len(allProperties) = 3
  /\ Len(filteredProperties) = 1

\* C5: with the default criteria the filter is the identity: the filtered
\* list equals allProperties, same elements in the same order.
C5_DefaultIsIdentity ==
  filters = DefaultFilters => filteredProperties = allProperties

\* C5 witness: applyFilters has run with the default criteria over a full
\* list: after setFilters, a tag was toggled on and off again.
C5_Witness ==
  /\ filters = DefaultFilters
  /\ ~hist.afterReset
  /\ ops >= 3
  /\ Len(allProperties) = 3
  /\ filteredProperties = allProperties

\* C6: filteredProperties is a subsequence of allProperties, and the cards
\* are rendered in that order.
C6_OrderPreserved ==
  /\ \E pos \in [1..Len(filteredProperties) -> 1..Len(allProperties)] :
       /\ \A i \in 1..Len(filteredProperties) : allProperties[pos[i]] = filteredProperties[i]
       /\ \A i, j \in 1..Len(filteredProperties) : i < j => pos[i] < pos[j]
  /\ container.cards = [i \in 1..Len(filteredProperties) |-> filteredProperties[i].id]

\* C6 witness: after a tag click the middle property of three is filtered
\* out and the two others are kept, first before last.
C6_Witness ==
  /\ Len(allProperties) = 3
  /\ filters # DefaultFilters
  /\ controls.pressed # {}
  /\ filteredProperties = <<allProperties[1], allProperties[3]>>
  /\ container.cards = <<allProperties[1].id, allProperties[3].id>>

TagSet(tags) == {tags[i] : i \in 1..Len(tags)}

\* a step that changes nothing of the criteria but the tags, over the same list
OnlyTagsChange ==
  /\ allProperties' = allProperties
  /\ [filters' EXCEPT !.tags = << >>] = [filters EXCEPT !.tags = << >>]

\* C7: adding a tag to the required tags never increases the number of
\* filtered properties, and removing one never decreases it.
C7_TagMonotonic ==
  [][ OnlyTagsChange =>
        /\ (TagSet(filters.tags) \subseteq TagSet(filters'.tags))
             => Len(filteredProperties') <= Len(filteredProperties)
        /\ (TagSet(filters'.tags) \subseteq TagSet(filters.tags))
             => Len(filteredProperties') >= Len(filteredProperties) ]_vars

\* C7 witness: two tags were required by clicks and fewer properties are
\* left than the list holds.
C7_Witness ==
  /\ Cardinality(controls.pressed) >= 1
  /\ Len(filters.tags) >= 2
  /\ Len(allProperties) = 3
  /\ Len(filteredProperties) = 1

\* C8: a burst of search inputs less than debounceDelay apart, not
\* disturbed by another handler of the debounce handle or the search
\* control, commits exactly once, debounceDelay after the last input, the
\* lower-cased trimmed last value; until then criteria.search keeps the value
\* it had before the burst.
C8_DebounceCommitsOnce ==
  (hist.clean /\ hist.n >= 1) =>
    /\ hist.commits <= 1
    /\ hist.commits = 0 =>
         /\ filters.search = hist.before
         /\ Cardinality(Pending("search")) = 1
         /\ \A t \in Pending("search") : t.remaining = debounceDelay - hist.since
    /\ hist.commits = 1 =>
         /\ Pending("search") = {}
         /\ hist.commitAt = debounceDelay
         /\ hist.commitValue = trim(toLowerCase(hist.last))

\* C8 witness: a burst of at least two inputs has committed, and what it
\* committed differs from what the criteria held before.
C8_Witness ==
  /\ hist.clean
  /\ hist.n >= 2
  /\ hist.commits = 1
  /\ filters.search # hist.before

\* no debounced input for debounceDelay, no debounce callback pending, and
\* the criteria were not set programmatically
Quiet ==
  /\ hist.quietFor >= debounceDelay
  /\ Pending("search") = {}
  /\ Pending("price") = {}
  /\ ~hist.programmatic

\* C9: the search and the price debounce resolve independently: once input
\* has been quiet for debounceDelay, criteria.search is the lower-cased
\* trimmed text of the search control and minPrice/maxPrice are the values
\* of the price controls.
C9_IndependentDebounce ==
  Quiet =>
    /\ filters.search = trim(toLowerCase(controls.search))
    /\ filters.minPrice = parseOrNull(controls.minPrice)
    /\ filters.maxPrice = parseOrNull(controls.maxPrice)

\* C10: after resetFilters, also once the debounce timers that were pending
\* at the reset have fired, the criteria are the defaults, every control is
\* cleared, filteredProperties is all of allProperties, and the reset was
\* announced.
C10_ResetRestoresDefaults ==
  hist.afterReset =>
    /\ filters = DefaultFilters
    /\ controls = ClearedControls
    /\ filteredProperties = allProperties
    /\ container = Render(allProperties)
    /\ hist.lastSaid = ResetMessage

\* C10 witness: a debounce timer that was pending at the reset has fired
\* after it.
C10_Witness ==
  /\ hist.afterReset
  /\ hist.staleFired
  /\ Len(allProperties) >= 1

\* C11: the count badge shows filteredProperties.length, the label reads
\* 'property found' for a count of 1 and 'properties found' for every other
\* count, and the container holds the no-results placeholder (with its reset
\* button) when the count is 0 and otherwise exactly one card per filtered
\* property, in order.
C11_BadgeAndContainer ==
  LET n == Len(filteredProperties) IN
    /\ resultsCount = n
    /\ resultsLabel = (IF n = 1 THEN "property found" ELSE "properties found")
    /\ container.placeholder <=> (n = 0)
    /\ Len(container.cards) = n
    /\ \A i \in 1..n : container.cards[i] = filteredProperties[i].id
    /\ ENABLED NoResultsResetClick => n = 0

\* C11 witness: a committed search leaves exactly one property, so the badge
\* is in the singular.
C11_Witness ==
  /\ ops >= 1
  /\ filters.search # << >>
  /\ Len(filteredProperties) = 1
  /\ resultsLabel = "property found"

(***************************************************************************)
(* FormValidator (_site/js/security/csrf-protection.js)                    *)
(***************************************************************************)
DigitChar(d) ==
    CASE d = 0 -> "0" [] d = 1 -> "1" [] d = 2 -> "2" [] d = 3 -> "3" []
         d = 4 -> "4" [] d = 5 -> "5" [] d = 6 -> "6" [] d = 7 -> "7" []
         d = 8 -> "8" [] d = 9 -> "9"

\* `${n}` for 0 <= n <= 99
NumberText(n) == IF n < 10 THEN <<DigitChar(n)>> ELSE <<DigitChar(n \div 10), DigitChar(n % 10)>>

IsDigit(c) == DigitValue(c) # -1

\* a string matches [^\s@]+
NoSpaceNoAt(str) == Len(str) > 0 /\ \A i \in 1..Len(str) : str[i] \notin {" ", "@"}

\* validators.required
requiredValid(value) == Len(trim(value)) > 0

\* validators.email: /^[^\s@]+@[^\s@]+\.[^\s@]+$/
emailValid(value) ==
  \E i \in 1..Len(value) : \E j \in (i + 1)..Len(value) :
    /\ value[i] = "@"
    /\ value[j] = "."
    /\ NoSpaceNoAt(SubSeq(value, 1, i - 1))
    /\ NoSpaceNoAt(SubSeq(value, i + 1, j - 1))
    /\ NoSpaceNoAt(SubSeq(value, j + 1, Len(value)))

\* validators.zip: /^\d{5}(-\d{4})?$/
zipValid(value) ==
  \/ Len(value) = 5 /\ \A i \in 1..5 : IsDigit(value[i])
  \/ /\ Len(value) = 10
     /\ \A i \in 1..5 : IsDigit(value[i])
     /\ value[6] = "-"
     /\ \A i \in 7..10 : IsDigit(value[i])

\* validators.minLength: value.length >= parseInt(length, 10); with no
\* parameter parseInt gives NaN and the comparison is false
minLengthValid(value, param) ==
  IF param = Undefined THEN FALSE ELSE Len(value) >= parseInt(param)

\* validators.maxLength
maxLengthValid(value, param) ==
  IF param = Undefined THEN FALSE ELSE Len(value) <= parseInt(param)

RequiredMessage == <<"This field is required">>
EmailMessage == <<"Please enter a valid email address">>
ZipMessage == <<"Please enter a valid ZIP code (e.g., 75701 or 75701-1234)">>
PatternMessage == <<"Please match the requested format">>
AtLeastMessage(n) == <<"Must be at least ">> \o n \o <<" characters">>
NoMoreMessage(n) == <<"Must be no more than ">> \o n \o <<" characters">>

\* the names in this.validators that the modelled forms use
ValidatorNames == {"required", "email", "zip", "minLength", "maxLength"}

\* this.validators[name](value, param): [valid, message]
RunValidator(name, value, param) ==
  CASE name = "required"  -> [valid |-> requiredValid(value), message |-> RequiredMessage] []
       name = "email"     -> [valid |-> emailValid(value), message |-> EmailMessage] []
       name = "zip"       -> [valid |-> zipValid(value), message |-> ZipMessage] []
       name = "minLength" -> [valid |-> minLengthValid(value, param),
                              message |-> AtLeastMessage(param)] []
       name = "maxLength" -> [valid |-> maxLengthValid(value, param),
                              message |-> NoMoreMessage(param)]

\* new RegExp(field.pattern).test(value) for the pattern \d{5}: the value
\* holds five digits in a row somewhere (the test is not anchored)
PatternTest(value) ==
  \E i \in 1..(Len(value) - 4) : \A k \in 0..4 : IsDigit(value[i + k])

\* field.hasAttribute('required') || field.dataset.validate?.includes('required');
\* of the type names used here only 'required' contains that substring
IsRequired(field) ==
  field.required \/ \E i \in 1..Len(field.validate) : field.validate[i].name = "required"

\* the required check of validateField
RequiredErrors(field, value) ==
  IF IsRequired(field) /\ ~requiredValid(value) THEN <<RequiredMessage>> ELSE << >>

\* validateTypes.forEach: the messages of the declared validators that fail,
\* in declared order; 'required' and names that are no validator are skipped
RECURSIVE DeclaredErrors(_, _)
DeclaredErrors(types, value) ==
  IF types = << >> THEN << >>
  ELSE LET type == Head(types)
           known == type.name \in ValidatorNames /\ type.name # "required"
       IN (IF known /\ ~RunValidator(type.name, value, type.param).valid
             THEN <<RunValidator(type.name, value, type.param).message>>
             ELSE << >>)
          \o DeclaredErrors(Tail(types), value)

\* the HTML5 attributes minlength, maxlength and pattern, in this order
ConstraintErrors(field, value) ==
  (IF field.minLength > 0 /\ Len(value) < field.minLength
     THEN <<AtLeastMessage(NumberText(field.minLength))>> ELSE << >>)
  \o (IF field.maxLength > 0 /\ Len(value) > field.maxLength
        THEN <<NoMoreMessage(NumberText(field.maxLength))>> ELSE << >>)
  \o (IF field.pattern /\ ~PatternTest(value)
        THEN <<IF field.title = << >> THEN PatternMessage ELSE field.title>>
        ELSE << >>)

\* faulty variant: the other validations run on an empty value too
SkipOthersNever(value) == FALSE

\* "skip other validations if empty": value.trim().length > 0 is false
SkipOthers(value) == Len(trim(value)) = 0

\* the errors array validateField builds
FieldErrors(field, value) ==
  RequiredErrors(field, value)
  \o (IF SkipOthers(value) THEN << >>
      ELSE DeclaredErrors(field.validate, value) \o ConstraintErrors(field, value))

(***************************************************************************)
(* FormValidator: the form and its state                                   *)
(***************************************************************************)
\* FormValidator options.debounceDelay
fvDebounceDelay == 300
\* updateFieldUI: the shake class is removed after 300 ms
shakeDelay == 300
\* the label of the submit control in the page
SubmitLabel == "Send Message"
\* the key getUserIdentifier gives in this browser
UserKey == "fp"

Type(name) == [name |-> name, param |-> Undefined]
TypeWith(name, param) == [name |-> name, param |-> param]

\* the contact form: a required e-mail field and an optional ZIP field
EmailField ==
  [id |-> "email", required |-> TRUE,
   validate |-> <<Type("email"), TypeWith("minLength", <<"6">>)>>,
   minLength |-> -1, maxLength |-> -1, pattern |-> FALSE, title |-> << >>,
   initial |-> << >>]
ZipField ==
  [id |-> "zip", required |-> FALSE,
   validate |-> <<Type("zip")>>,
   minLength |-> 5, maxLength |-> -1, pattern |-> FALSE, title |-> << >>,
   initial |-> << >>]
ContactForm == <<EmailField, ZipField>>

\* what the user types into each field of the contact form
EmailTexts == {<< >>, <<"a", "@", "b">>, <<"a", "@", "b", ".", "c", "o">>}
ZipTexts == {<< >>, <<"7", "5", "7", "0">>, <<"7", "5", "7", "0", "1">>}
InputTexts(f) ==
  CASE f = "email" -> EmailTexts [] f = "zip" -> ZipTexts [] OTHER -> {<< >>, <<"a", "@", "b">>}

\* one-field forms: the field declares these validators ...
Unknown == Type("captcha")
ValidateLists ==
  {<< >>, <<Type("email")>>, <<Type("email"), TypeWith("minLength", <<"6">>)>>,
   <<TypeWith("minLength", <<"6">>), Type("email")>>, <<Type("required"), Type("zip")>>,
   <<Unknown, Type("zip"), TypeWith("maxLength", <<"5">>)>>, <<Type("minLength")>>}
\* ... and holds one of these values when the page is loaded
AnyTexts ==
  {<< >>, <<" ">>, <<"a", "@", "b">>, <<"a", "@", "b", ".", "c", "o">>,
   <<"7", "5", "7", "0">>, <<"7", "5", "7", "0", "1">>, <<"7", "5", "7", "0", "1", "2", "3">>}
FieldConfigs ==
  {[id |-> "field", required |-> r, validate |-> vs, minLength |-> mn, maxLength |-> mx,
    pattern |-> pt[1], title |-> pt[2], initial |-> init] :
     r \in BOOLEAN, vs \in ValidateLists, mn \in {-1, 5}, mx \in {-1, 6},
     pt \in {<<FALSE, << >>>>, <<TRUE, << >>>>, <<TRUE, <<"Five digits">>>>},
     init \in AnyTexts}

\* the forms the validator is constructed on: none, the contact form, or a
\* form with one field
Forms == {<< >>, ContactForm} \cup {<<c>> : c \in FieldConfigs}

Ids(fm) == {fm[i].id : i \in 1..Len(fm)}
FieldById(fm, f) == fm[CHOOSE i \in 1..Len(fm) : fm[i].id = f]

\* setupField: the initial field state
FreshState == [touched |-> FALSE, valid |-> TRUE, errors |-> << >>]
\* a field nothing has been shown on yet
FreshUI == [ariaInvalid |-> "absent", errorText |-> << >>, errorDisplay |-> "", shake |-> FALSE]
\* reset(): the field's UI after it
ClearedUI(ui) == [ui EXCEPT !.ariaInvalid = "absent", !.errorText = << >>, !.errorDisplay = "none"]

\* updateFieldUI(field, state): aria-invalid, the error container and the
\* shake class (the error/success classes of the group follow aria-invalid)
updateFieldUI(ui, state) ==
  IF ~state.valid
    THEN [ui EXCEPT !.ariaInvalid = "true",
                    !.errorText = IF state.errors = << >> THEN << >> ELSE state.errors[1],
                    !.errorDisplay = "block",
                    !.shake = TRUE]
    ELSE IF state.touched
      THEN [ui EXCEPT !.ariaInvalid = "false", !.errorText = << >>, !.errorDisplay = "none"]
      ELSE [ui EXCEPT !.ariaInvalid = "absent"]

\* validateField(field) on S = [states, ui, timers, ran]; ran lists the
\* calls made, each with the value read and the boolean returned
FieldValidated(S, values, f, errors) ==
  LET state == [touched |-> TRUE, valid |-> errors = << >>, errors |-> errors]
  IN [states |-> MapSet(S.states, f, state),
      ui |-> [S.ui EXCEPT ![f] = updateFieldUI(S.ui[f], state)],
      timers |-> IF state.valid THEN S.timers
                 ELSE S.timers \cup {[id |-> 0, kind |-> "shake", field |-> f,
                                      remaining |-> shakeDelay]},
      ran |-> Append(S.ran, [field |-> f, value |-> values[f], returned |-> state.valid])]

validateField(S, fm, values, f) ==
  FieldValidated(S, values, f, FieldErrors(FieldById(fm, f), values[f]))

\* the body of the forEach callback of validateForm: S2 is what validateField
\* left for the field id
Accumulate(acc, S2, id) ==
  LET fieldValid == S2.ran[Len(S2.ran)].returned
  IN [S |-> S2,
      isValid |-> acc.isValid /\ fieldValid,
      firstInvalidField |-> IF ~fieldValid /\ acc.isValid THEN id
                            ELSE acc.firstInvalidField]

\* faulty variant: the loop stops at the first invalid field
RECURSIVE ValidateFromStopping(_, _, _, _)
ValidateFromStopping(acc, fm, values, i) ==
  IF i > Len(fm) \/ ~acc.isValid THEN acc
  ELSE ValidateFromStopping(
         Accumulate(acc, validateField(acc.S, fm, values, fm[i].id), fm[i].id),
         fm, values, i + 1)

\* validateForm: fields.forEach from the i-th field on
RECURSIVE ValidateFrom(_, _, _, _)
ValidateFrom(acc, fm, values, i) ==
  IF i > Len(fm) THEN acc
  ELSE ValidateFrom(
         Accumulate(acc, validateField(acc.S, fm, values, fm[i].id), fm[i].id),
         fm, values, i + 1)

\* the end of validateForm, r being what the loop left: scrollIntoView and
\* focus() on the first invalid field; focus() takes the focus from the field
\* that had it, whose blur listener validates it once more
FocusFirstInvalid(r, fm, values, focus) ==
  IF ~r.isValid /\ r.firstInvalidField # ""
    THEN [S |-> IF focus \notin {"", r.firstInvalidField}
                  THEN validateField(r.S, fm, values, focus) ELSE r.S,
          isValid |-> FALSE,
          focused |-> r.firstInvalidField,
          passRan |-> r.S.ran]
    ELSE [S |-> r.S, isValid |-> r.isValid, focused |-> focus, passRan |-> r.S.ran]

\* validateForm(): every field, then the focus on the first invalid one
validateForm(S, fm, values, focus) ==
  FocusFirstInvalid(
    ValidateFrom([S |-> S, isValid |-> TRUE, firstInvalidField |-> ""], fm, values, 1),
    fm, values, focus)

\* getErrors(): one entry per invalid field, in registration order
RECURSIVE getErrorsFrom(_, _, _)
getErrorsFrom(fm, states, i) ==
  IF i > Len(fm) THEN << >>
  ELSE (IF fm[i].id \in DOMAIN states /\ ~states[fm[i].id].valid
          THEN <<[field |-> fm[i].id, errors |-> states[fm[i].id].errors]>>
          ELSE << >>)
       \o getErrorsFrom(fm, states, i + 1)

getErrors(fm, states) == getErrorsFrom(fm, states, 1)

\* showRateLimitError: the message
RateLimitMessage(retryAfter) ==
  IF retryAfter # 0
    THEN <<"Too many attempts. Please wait ">> \o NumberText(retryAfter)
         \o <<" seconds before trying again.">>
    ELSE <<"Too many attempts. Please try again later.">>

\* what showRateLimitError hands to onError
RateLimitEntry(retryAfter) ==
  [field |-> "form", message |-> RateLimitMessage(retryAfter), type |-> "rate_limit"]

\* what the catch block hands to onError: error.message of the rejection
SubmitFailure == [field |-> "form", message |-> <<"Network error">>]

\* setLoadingState(false) on the submit control
setLoadingOff(button) ==
  [button EXCEPT !.disabled = FALSE,
                 !.text = IF button.originalText # "" THEN button.originalText ELSE @]

\* setLoadingState(true) on the submit control
setLoadingOn(button) ==
  [button EXCEPT !.disabled = TRUE, !.originalText = button.text, !.text = "Submitting..."]

\* faulty variant: every input event schedules a validation
ShouldDebounceAlways(state) == TRUE

\* the input listener: "only validate on input if field has been touched"
ShouldDebounce(state) == state.touched

\* the pending callbacks of one kind for one field
PendingFV(kind, f) == {t \in fvTimers : t.kind = kind /\ t.field = f}

\* the id setTimeout returns: never one that is pending or still held in
\* this.debounceTimers
FreshFVId(ts, held) ==
  CHOOSE i \in 1..(Cardinality(ts) + Cardinality(DOMAIN held) + 1) :
    LET used(j) == (\E t \in ts : t.id = j) \/ (\E f \in DOMAIN held : held[f] = j)
    IN ~used(i) /\ \A j \in 1..(i - 1) : used(j)

NoBurst == [n |-> 0, since |-> 0, runs |-> 0, clean |-> TRUE, runAt |-> 0]
NoPass == [done |-> FALSE, result |-> TRUE, ran |-> << >>, focused |-> ""]
NoSubmit == [rejected |-> FALSE, statesBefore |-> << >>, submittedBefore |-> 0,
             errorCallsBefore |-> 0, attemptsBefore |-> << >>, passResult |-> TRUE]

\* the history after the calls in ran: the value each field was last
\* validated with and what validateField returned for it
Seen(h, ran) ==
  [h EXCEPT !.seen = [f \in DOMAIN h.seen |->
                        LET Calls == {i \in 1..Len(ran) : ran[i].field = f}
                        IN IF Calls = {} THEN h.seen[f]
                           ELSE LET k == CHOOSE i \in Calls : \A j \in Calls : j <= i
                                IN [value |-> ran[k].value, returned |-> ran[k].returned]]]

\* new FormValidator(form): constructor and init with the default options
\* and an onSubmit and an onError callback
FVInit ==
  /\ form \in Forms
  /\ fieldValues = [f \in Ids(form) |-> FieldById(form, f).initial]
  /\ fieldStates = [f \in Ids(form) |-> FreshState]
  /\ fieldUI = [f \in Ids(form) |-> FreshUI]
  /\ debounceTimers = << >>
  /\ fvTimers = {}
  /\ submitButton = [disabled |-> FALSE, text |-> SubmitLabel, originalText |-> "",
                     rateLimited |-> FALSE]
  /\ formUI = [loading |-> FALSE, rateLimited |-> FALSE, globalError |-> << >>,
               globalDisplay |-> "absent", novalidate |-> form # << >>]
  /\ inFlight = 0
  /\ callbacks = [submitted |-> 0, errorCalls |-> 0, lastError |-> << >>]
  /\ focused = ""
  /\ fvOps = 0
  /\ fvHist = [last |-> "init",
               seen |-> [f \in Ids(form) |-> [value |-> << >>, returned |-> TRUE]],
               pass |-> NoPass,
               sub |-> NoSubmit,
               resetWhilePending |-> FALSE,
               destroyed |-> FALSE,
               bursts |-> [f \in Ids(form) |-> NoBurst]]

MaxFVOps == 4

\* faulty variant: a rejected attempt goes on to validation
GateOpenAlways(r) == TRUE

\* handleSubmit goes on past the rate limit check: rateLimitResult.allowed
GateOpen(r) == r.allowed

\* a user or API event on the form
FVEvent == fvOps < MaxFVOps /\ fvOps' = fvOps + 1 /\ UNCHANGED FrameFV

\* a timer callback, a settling promise or the passing of time
FVInternal == UNCHANGED fvOps /\ UNCHANGED FrameFV

\* the state validateField works on
Bundle == [states |-> fieldStates, ui |-> fieldUI, timers |-> fvTimers, ran |-> << >>]

\* the field f takes the focus; the field that had it gets 'blur', whose
\* listener validates it
FocusField(f) ==
  /\ FVEvent
  /\ f \in Ids(form)
  /\ focused # f
  /\ LET S == IF focused = "" THEN Bundle
              ELSE validateField(Bundle, form, fieldValues, focused)
     IN /\ fieldStates' = S.states
        /\ fieldUI' = S.ui
        /\ fvTimers' = S.timers
        /\ fvHist' = [Seen(fvHist, S.ran) EXCEPT !.last = "focus"]
  /\ focused' = f
  /\ UNCHANGED <<form, fieldValues, debounceTimers, submitButton, formUI, inFlight,
                 callbacks, rlVars>>

\* 'blur' on the focused field: validateField
Blur ==
  /\ FVEvent
  /\ focused # ""
  /\ LET S == validateField(Bundle, form, fieldValues, focused)
     IN /\ fieldStates' = S.states
        /\ fieldUI' = S.ui
        /\ fvTimers' = S.timers
        /\ fvHist' = [Seen(fvHist, S.ran) EXCEPT !.last = "blur"]
  /\ focused' = ""
  /\ UNCHANGED <<form, fieldValues, debounceTimers, submitButton, formUI, inFlight,
                 callbacks, rlVars>>

\* 'input' on the focused field f, whose value becomes v: the pending timer
\* of f is cleared, and a new one is set if the field has been touched
Input(f, v) ==
  /\ FVEvent
  /\ focused = f
  /\ v # fieldValues[f]
  /\ fieldValues' = [fieldValues EXCEPT ![f] = v]
  /\ LET cleared == IF f \in DOMAIN debounceTimers
                      THEN clearTimeout(fvTimers, debounceTimers[f]) ELSE fvTimers
         timer == FreshFVId(cleared, debounceTimers)
         b == fvHist.bursts[f]
         state == IF f \in DOMAIN fieldStates THEN fieldStates[f] ELSE [touched |-> FALSE]
     IN IF ShouldDebounce(state)
          THEN /\ fvTimers' = cleared \cup {[id |-> timer, kind |-> "validate", field |-> f,
                                             remaining |-> fvDebounceDelay]}
               /\ debounceTimers' = MapSet(debounceTimers, f, timer)
               /\ fvHist' = [fvHist EXCEPT
                    !.last = "input",
                    !.bursts[f] = IF b.n > 0 /\ b.runs = 0
                                    THEN [b EXCEPT !.n = @ + 1, !.since = 0]
                                    ELSE [NoBurst EXCEPT !.n = 1]]
          ELSE /\ fvTimers' = cleared
               /\ debounceTimers' = debounceTimers
               /\ fvHist' = [fvHist EXCEPT !.last = "input", !.bursts[f] = NoBurst]
  /\ UNCHANGED <<form, fieldStates, fieldUI, submitButton, formUI, inFlight, callbacks,
                 focused, rlVars>>

\* handleSubmit(e) up to its await: the rate limiter, then validateForm, then
\* the call of onSubmit
\* handleSubmit once the limiter has answered r; v is what validateForm
\* gives when it is called
Submitted(r, v) ==
     LET sub == [rejected |-> ~r.allowed,
                 attemptsBefore |-> MapGet(attempts, UserKey),
                 statesBefore |-> fieldStates,
                 submittedBefore |-> callbacks.submitted,
                 errorCallsBefore |-> callbacks.errorCalls,
                 passResult |-> v.isValid]
     IN /\ attempts' = r.map
        /\ IF ~GateOpen(r)
             THEN \* showRateLimitError(rateLimitResult)
                  /\ formUI' = [formUI EXCEPT !.globalError = RateLimitMessage(r.retryAfter),
                                              !.globalDisplay = "block",
                                              !.rateLimited = TRUE]
                  /\ submitButton' = [submitButton EXCEPT !.disabled = TRUE,
                                                          !.rateLimited = TRUE]
                  /\ fvTimers' = IF r.retryAfter # 0
                                   THEN fvTimers \cup {[id |-> 0, kind |-> "ratelimit",
                                                        field |-> "",
                                                        remaining |-> r.retryAfter * 1000]}
                                   ELSE fvTimers
                  /\ callbacks' = [callbacks EXCEPT !.errorCalls = @ + 1,
                                                    !.lastError = <<RateLimitEntry(r.retryAfter)>>]
                  /\ fvHist' = [fvHist EXCEPT !.last = "submit", !.sub = sub]
                  /\ UNCHANGED <<fieldStates, fieldUI, focused, inFlight>>
             ELSE /\ fieldStates' = v.S.states
                  /\ fieldUI' = v.S.ui
                  /\ fvTimers' = v.S.timers
                  /\ focused' = v.focused
                  /\ fvHist' = [Seen(fvHist, v.S.ran) EXCEPT
                       !.last = "submit",
                       !.sub = sub,
                       !.pass = [done |-> TRUE, result |-> v.isValid, ran |-> v.passRan,
                                 focused |-> v.focused]]
                  /\ IF ~v.isValid
                       THEN /\ callbacks' = [callbacks EXCEPT
                                 !.errorCalls = @ + 1,
                                 !.lastError = getErrors(form, v.S.states)]
                            /\ UNCHANGED <<submitButton, formUI, inFlight>>
                       ELSE \* setLoadingState(true); await this.options.onSubmit(...)
                            /\ formUI' = [formUI EXCEPT !.loading = TRUE]
                            /\ submitButton' = setLoadingOn(submitButton)
                            /\ callbacks' = [callbacks EXCEPT !.submitted = @ + 1]
                            /\ inFlight' = inFlight + 1

\* the form gives a 'submit' event: always while it carries novalidate (init
\* sets it, destroy removes it); without it the browser validates the fields
\* first, and the event is taken to be given when every field is in order
SubmitEventFires(fm, ui, values) ==
  ui.novalidate \/ \A i \in 1..Len(fm) : FieldErrors(fm[i], values[fm[i].id]) = << >>

\* handleSubmit, up to the call of onSubmit
handleSubmit ==
  /\ FVEvent
  /\ Submitted(isAllowed(attempts, UserKey, now, maxAttempts, windowMs),
               validateForm(Bundle, form, fieldValues, focused))
  /\ UNCHANGED <<form, fieldValues, debounceTimers, now, maxAttempts, windowMs, calls>>

\* a 'submit' event from the submit control (a click on it, or Enter in a
\* field), which an enabled control only gives
SubmitClick ==
  /\ form # << >>
  /\ ~submitButton.disabled
  /\ SubmitEventFires(form, formUI, fieldValues)
  /\ handleSubmit

\* a 'submit' event that does not need the control: form.requestSubmit()
RequestSubmit ==
  /\ form # << >>
  /\ SubmitEventFires(form, formUI, fieldValues)
  /\ handleSubmit

\* the promise of one pending onSubmit settles: the catch block on a
\* rejection, and the finally block
Settle(outcome) ==
  /\ FVInternal
  /\ inFlight > 0
  /\ inFlight' = inFlight - 1
  /\ callbacks' = IF outcome = "reject"
                    THEN [callbacks EXCEPT !.errorCalls = @ + 1,
                                           !.lastError = <<SubmitFailure>>]
                    ELSE callbacks
  /\ formUI' = [formUI EXCEPT !.loading = FALSE]
  /\ submitButton' = setLoadingOff(submitButton)
  /\ fvHist' = [fvHist EXCEPT !.last = outcome,
                              !.resetWhilePending = IF inFlight = 1 THEN FALSE ELSE @]
  /\ UNCHANGED <<form, fieldValues, fieldStates, fieldUI, debounceTimers, fvTimers,
                 focused, rlVars>>

\* reset(): form.reset(), every field state and field UI cleared, then
\* resetRateLimit()
FVReset ==
  /\ FVEvent
  /\ form # << >>
  /\ fieldValues' = [f \in Ids(form) |-> FieldById(form, f).initial]
  /\ fieldStates' = [f \in DOMAIN fieldStates |-> FreshState]
  /\ fieldUI' = [f \in Ids(form) |-> IF f \in DOMAIN fieldStates
                                        THEN ClearedUI(fieldUI[f]) ELSE fieldUI[f]]
  /\ attempts' = [k \in DOMAIN attempts \ {UserKey} |-> attempts[k]]
  /\ formUI' = [formUI EXCEPT !.rateLimited = FALSE,
                              !.globalDisplay = IF @ = "absent" THEN @ ELSE "none"]
  /\ submitButton' = [submitButton EXCEPT !.disabled = FALSE, !.rateLimited = FALSE]
  /\ fvHist' = [fvHist EXCEPT !.last = "reset",
                              !.resetWhilePending = @ \/ inFlight > 0,
                              !.bursts = [f \in Ids(form) |-> [@[f] EXCEPT !.clean = FALSE]]]
  /\ UNCHANGED <<form, debounceTimers, fvTimers, inFlight, callbacks, focused,
                 now, maxAttempts, windowMs, calls>>

\* a due timer runs its callback
FVTimerFire(t) ==
  /\ FVInternal
  /\ t \in fvTimers
  /\ t.remaining = 0
  /\ CASE t.kind = "validate" ->
            LET S == validateField([Bundle EXCEPT !.timers = fvTimers \ {t}],
                                   form, fieldValues, t.field)
            IN /\ fieldStates' = S.states
               /\ fieldUI' = S.ui
               /\ fvTimers' = S.timers
               /\ fvHist' = [Seen(fvHist, S.ran) EXCEPT
                    !.last = "timer",
                    !.bursts[t.field] = [@ EXCEPT !.runs = @ + 1, !.runAt = fvHist.bursts[t.field].since]]
               /\ UNCHANGED <<submitButton, formUI>>
       [] t.kind = "shake" ->
            /\ fieldUI' = [fieldUI EXCEPT ![t.field].shake = FALSE]
            /\ fvTimers' = fvTimers \ {t}
            /\ fvHist' = [fvHist EXCEPT !.last = "timer"]
            /\ UNCHANGED <<fieldStates, submitButton, formUI>>
       [] t.kind = "ratelimit" ->
            /\ formUI' = [formUI EXCEPT !.globalDisplay = "none", !.rateLimited = FALSE]
            /\ submitButton' = [submitButton EXCEPT !.disabled = FALSE, !.rateLimited = FALSE]
            /\ fvTimers' = fvTimers \ {t}
            /\ fvHist' = [fvHist EXCEPT !.last = "timer"]
            /\ UNCHANGED <<fieldStates, fieldUI>>
  /\ UNCHANGED <<form, fieldValues, debounceTimers, inFlight, callbacks, focused, rlVars>>

\* destroy(): the debounce timers cleared, the field states dropped,
\* novalidate removed and the rate limiter destroyed; no listener is removed
FVDestroy ==
  /\ FVInternal
  /\ form # << >>
  /\ ~fvHist.destroyed
  /\ fvTimers' = {t \in fvTimers :
                    ~(\E f \in DOMAIN debounceTimers : debounceTimers[f] = t.id)}
  /\ debounceTimers' = << >>
  /\ fieldStates' = << >>
  /\ formUI' = [formUI EXCEPT !.novalidate = FALSE]
  /\ attempts' = << >>
  /\ fvHist' = [fvHist EXCEPT !.last = "destroy", !.destroyed = TRUE]
  /\ UNCHANGED <<form, fieldValues, fieldUI, submitButton, inFlight, callbacks, focused,
                 now, maxAttempts, windowMs, calls>>

FVCapped(ms) == IF ms > fvDebounceDelay THEN fvDebounceDelay ELSE ms

\* dt ms pass while callbacks are pending; none of them is overdue
FVAdvance(dt) ==
  /\ FVInternal
  /\ dt > 0
  /\ fvTimers # {}
  /\ \A t \in fvTimers : t.remaining >= dt
  /\ fvTimers' = {[t EXCEPT !.remaining = @ - dt] : t \in fvTimers}
  /\ now' = now + dt
  /\ fvHist' = [fvHist EXCEPT
       !.last = "tick",
       !.bursts = [f \in Ids(form) |-> [@[f] EXCEPT !.since = FVCapped(@ + dt)]]]
  /\ UNCHANGED <<form, fieldValues, fieldStates, fieldUI, debounceTimers, submitButton,
                 formUI, inFlight, callbacks, focused, maxAttempts, windowMs, attempts, calls>>

\* the time steps taken: up to the next due callback, and in steps of 100 ms
\* while a debounced validation is pending
FVTimeSteps ==
  {t.remaining : t \in fvTimers}
  \cup (IF \E t \in fvTimers : t.kind = "validate" THEN {100} ELSE {})

FVNext ==
  \/ \E f \in Ids(form) : FocusField(f)
  \/ Blur
  \/ \E f \in Ids(form) : \E v \in InputTexts(f) : Input(f, v)
  \/ SubmitClick
  \/ RequestSubmit
  \/ \E outcome \in {"resolve", "reject"} : Settle(outcome)
  \/ FVReset
  \/ \E t \in fvTimers : FVTimerFire(t)
  \/ \E dt \in FVTimeSteps : FVAdvance(dt)

\* the form in use up to and after destroy()
TeardownNext ==
  \/ \E f \in Ids(form) : FocusField(f)
  \/ Blur
  \/ \E f \in Ids(form) : \E v \in InputTexts(f) : Input(f, v)
  \/ SubmitClick
  \/ \E outcome \in {"resolve", "reject"} : Settle(outcome)
  \/ \E t \in fvTimers : FVTimerFire(t)
  \/ \E dt \in FVTimeSteps : FVAdvance(dt)
  \/ FVDestroy

(***************************************************************************)
(* FormValidator: claims                                                   *)
(***************************************************************************)
\* the messages a value must produce for a field: the required message, then
\* (for a value that is not blank) the message of each failing declared
\* validator in declared order, then minlength, maxlength, pattern
ExpectedErrors(field, value) ==
  LET blank == trim(value) = << >>
      Fails(type) == /\ type.name \in ValidatorNames \ {"required"}
                     /\ ~RunValidator(type.name, value, type.param).valid
      failing == SelectSeq(field.validate, Fails)
      declared == [i \in 1..Len(failing) |->
                     RunValidator(failing[i].name, value, failing[i].param).message]
      tooShort == field.minLength > 0 /\ Len(value) < field.minLength
      tooLong == field.maxLength > 0 /\ Len(value) > field.maxLength
      noMatch == field.pattern /\ ~PatternTest(value)
  IN (IF IsRequired(field) /\ blank THEN <<RequiredMessage>> ELSE << >>)
     \o (IF blank THEN << >>
         ELSE declared
              \o (IF tooShort THEN <<AtLeastMessage(NumberText(field.minLength))>> ELSE << >>)
              \o (IF tooLong THEN <<NoMoreMessage(NumberText(field.maxLength))>> ELSE << >>)
              \o (IF noMatch THEN <<IF field.title = << >> THEN PatternMessage ELSE field.title>>
                  ELSE << >>))

\* C12: for every field that has been validated, with the value v it was
\* last validated with: FieldState.errors is the required message, then the
\* messages of the failing declared validators in declared order, then
\* minlength/maxlength/pattern (the last two groups only for a non-blank v);
\* the error container shows the first of them only; FieldState.valid and
\* the boolean returned say whether there is none; a blank value of a field
\* that is not required is valid.
C12_ValidateField ==
  \A f \in Ids(form) :
    fieldStates[f].touched =>
      LET field == FieldById(form, f)
          v == fvHist.seen[f].value
          st == fieldStates[f]
      IN /\ st.errors = ExpectedErrors(field, v)
         /\ st.valid = (st.errors = << >>)
         /\ fvHist.seen[f].returned = st.valid
         /\ st.valid => fieldUI[f].errorText = << >> /\ fieldUI[f].ariaInvalid = "false"
         /\ ~st.valid => /\ fieldUI[f].errorText = st.errors[1]
                         /\ fieldUI[f].errorDisplay = "block"
                         /\ fieldUI[f].ariaInvalid = "true"
         /\ (~IsRequired(field) /\ trim(v) = << >>) => st.valid

\* C12 witness: a validated field with three messages, of which the first is
\* shown.
C12_Witness ==
  \E f \in Ids(form) :
    /\ fieldStates[f].touched
    /\ Len(fieldStates[f].errors) >= 3
    /\ fieldUI[f].errorText = fieldStates[f].errors[1]
    /\ fvOps >= 1

\* C13: after a submit that reached validateForm: validateField ran on every
\* field, in DOM order, so each field is touched and its state is that of
\* its current value; the result is true exactly if all fields are valid; on
\* failure the first invalid field in DOM order has the focus; with the
\* required e-mail field empty and the ZIP field valid the result is false
\* and only the e-mail field is flagged.
C13_ValidateForm ==
  (fvHist.last = "submit" /\ ~fvHist.sub.rejected) =>
    LET pass == fvHist.pass
        Invalid == {i \in 1..Len(form) : ~fieldStates[form[i].id].valid}
    IN /\ pass.done
       /\ [i \in 1..Len(pass.ran) |-> pass.ran[i].field] = [i \in 1..Len(form) |-> form[i].id]
       /\ \A f \in Ids(form) :
            /\ fieldStates[f].touched
            /\ fieldStates[f].errors = ExpectedErrors(FieldById(form, f), fieldValues[f])
            /\ fieldStates[f].valid = (fieldStates[f].errors = << >>)
       /\ pass.result = (Invalid = {})
       /\ Invalid # {} => focused = form[CHOOSE i \in Invalid : \A j \in Invalid : i <= j].id
       /\ (form = ContactForm /\ fieldValues["email"] = << >>
             /\ fieldValues["zip"] \in {<< >>, <<"7", "5", "7", "0", "1">>}) =>
            /\ ~pass.result
            /\ fieldUI["email"].ariaInvalid = "true"
            /\ fieldUI["zip"].ariaInvalid = "false"

\* C13 witness: a submit finds both fields invalid and focuses the first.
C13_Witness ==
  /\ fvHist.last = "submit"
  /\ ~fvHist.sub.rejected
  /\ \A f \in Ids(form) : ~fieldStates[f].valid
  /\ Len(form) = 2
  /\ focused = form[1].id

\* an uninterrupted burst of input events on a touched field
InBurst(f) == fvHist.bursts[f].clean /\ fvHist.bursts[f].n >= 1

\* the state part of C14
C14_Burst ==
  \A f \in Ids(form) :
    InBurst(f) =>
      LET b == fvHist.bursts[f] IN
        /\ b.runs <= 1
        /\ b.runs = 0 =>
             /\ Cardinality(PendingFV("validate", f)) = 1
             /\ \A t \in PendingFV("validate", f) : t.remaining = fvDebounceDelay - b.since
        /\ b.runs = 1 =>
             /\ PendingFV("validate", f) = {}
             /\ b.runAt = fvDebounceDelay

\* the step part of C14
C14_Step ==
  \A f \in Ids(form) :
    /\ (fvHist'.last = "input" /\ fieldValues'[f] # fieldValues[f] /\ ~fieldStates[f].touched) =>
         /\ {t \in fvTimers' : t.kind = "validate" /\ t.field = f} = {}
         /\ fieldStates' = fieldStates
    /\ (fieldStates[f].touched /\ ~fieldStates'[f].touched) => fvHist'.last = "reset"

\* C14: an input event on an untouched field schedules and runs no
\* validation; a burst of input events on a touched field that reset() does
\* not interrupt runs validateField once, debounceDelay after its last
\* event, whatever happens on the other fields; a touched field becomes
\* untouched only by reset().
C14_FieldStateMachine == [][C14_Step]_vars /\ []C14_Burst

\* C14 witness: a burst of two input events on one field has run its one
\* validation while the other field has been validated as well.
C14_Witness ==
  \E f \in Ids(form) :
    /\ InBurst(f)
    /\ fvHist.bursts[f].n >= 2
    /\ fvHist.bursts[f].runs = 1
    /\ \A g \in Ids(form) : fieldStates[g].touched

\* C15: a submit is rejected exactly if maxAttempts attempts of the user are
\* already in the window, an accepted one is recorded; after a rejected
\* submit every FieldState is as before, onSubmit has not been called and
\* onError has been called once, with one entry of type rate_limit.
C15_RateLimitGate ==
  fvHist.last = "submit" =>
    LET sub == fvHist.sub
        before == sub.attemptsBefore
        InWindow == {i \in 1..Len(before) : now - before[i] < windowMs}
    IN /\ sub.rejected <=> Cardinality(InWindow) >= maxAttempts
       /\ ~sub.rejected => Len(attempts[UserKey]) = Cardinality(InWindow) + 1
       /\ sub.rejected =>
            /\ fieldStates = sub.statesBefore
            /\ callbacks.submitted = sub.submittedBefore
            /\ callbacks.errorCalls = sub.errorCallsBefore + 1
            /\ Len(callbacks.lastError) = 1
            /\ "type" \in DOMAIN callbacks.lastError[1]
            /\ callbacks.lastError[1].type = "rate_limit"
            /\ formUI.globalDisplay = "block"

\* C15 witness: a submit has been rejected by the rate limiter.
C15_Witness ==
  /\ fvHist.last = "submit"
  /\ fvHist.sub.rejected
  /\ callbacks.errorCalls >= 1

\* C16: onSubmit is called by a submit exactly if the limiter allowed it and
\* validateForm returned true; while a call is pending (and reset() has not
\* been called meanwhile) the submit control is disabled and reads
\* 'Submitting...'; a rejection is handed to onError; and once the calls
\* have settled the control is enabled and carries its original label
\* again, also when submit events overlap.
C16_SubmitLifecycle ==
  /\ fvHist.last = "submit" =>
       ((callbacks.submitted = fvHist.sub.submittedBefore + 1)
          <=> (~fvHist.sub.rejected /\ fvHist.sub.passResult))
  /\ fvHist.last = "reject" => callbacks.lastError = <<SubmitFailure>>
  /\ (inFlight > 0 /\ ~fvHist.resetWhilePending) =>
       submitButton.disabled /\ submitButton.text = "Submitting..."
  /\ (inFlight = 0 /\ fvHist.last \in {"resolve", "reject"}) =>
       ~submitButton.disabled /\ submitButton.text = SubmitLabel

\* C23: after destroy no validation acts on the torn-down form: no debounce
\* timer is pending, and no later blur, input or submit event runs
\* validateField, recreates a field state or consults the rate limiter (an
\* attempt it records shows the limiter was consulted).
C23_DestroyStopsValidation ==
  fvHist.destroyed =>
    /\ DOMAIN fieldStates = {}
    /\ DOMAIN debounceTimers = {}
    /\ \A t \in fvTimers : t.kind # "validate"
    /\ MapGet(attempts, UserKey) = << >>

(***************************************************************************)
(* Accordion (docs/js/theme-toggle.js)                                     *)
(***************************************************************************)
\* options.animationDuration
animationDuration == 300
\* the accordion items of the page
NumItems == 3
MaxAcOps == 3

Indices == 0..(NumItems - 1)
\* the indices the API is called with: also one below and one above the range
ApiIndices == -1..NumItems

\* init: the entry pushed to this.items for each item
ClosedItem ==
  [isOpen |-> FALSE, ariaExpanded |-> "false", buttonActive |-> FALSE, hidden |-> TRUE,
   maxHeight |-> "", transition |-> FALSE, panelActive |-> FALSE]

\* animateClose(panel)
animateClose(A, index) ==
  [A EXCEPT !.items[index].maxHeight = "0px",
            !.items[index].transition = TRUE,
            !.items[index].panelActive = FALSE,
            !.timers = Append(@, [kind |-> "closed", index |-> index,
                                  remaining |-> animationDuration])]

\* animateOpen(panel)
animateOpen(A, index) ==
  [A EXCEPT !.items[index].maxHeight = "scrollHeight",
            !.items[index].transition = TRUE,
            !.items[index].panelActive = TRUE,
            !.timers = Append(@, [kind |-> "opened", index |-> index,
                                  remaining |-> animationDuration])]

\* close(index, animate) on A = [items, timers, toggles]
close(A, index, animate) ==
  IF index < 0 \/ index >= NumItems THEN A
  ELSE IF ~A.items[index].isOpen THEN A
  ELSE LET B == [A EXCEPT !.items[index].isOpen = FALSE,
                          !.items[index].ariaExpanded = "false",
                          !.items[index].buttonActive = FALSE]
           C == IF animate THEN animateClose(B, index)
                ELSE [B EXCEPT !.items[index].hidden = TRUE,
                               !.items[index].maxHeight = "",
                               !.items[index].panelActive = FALSE]
       IN [C EXCEPT !.toggles = Append(@, [index |-> index, isOpen |-> FALSE])]

\* this.items.forEach: close every open panel other than index, from i on
RECURSIVE closeOthers(_, _, _, _)
closeOthers(A, index, animate, i) ==
  IF i >= NumItems THEN A
  ELSE closeOthers(IF i # index /\ A.items[i].isOpen THEN close(A, i, animate) ELSE A,
                   index, animate, i + 1)

\* faulty variant: the other panels are never closed
MutuallyExclusiveNever(options) == FALSE

\* "close other panels if not allowing multiple"
MutuallyExclusive(options) == ~options.allowMultiple

\* open(index, animate)
open(A, options, index, animate) ==
  IF index < 0 \/ index >= NumItems THEN A
  ELSE IF A.items[index].isOpen THEN A
  ELSE LET B == IF MutuallyExclusive(options) THEN closeOthers(A, index, animate, 0) ELSE A
           C == [B EXCEPT !.items[index].isOpen = TRUE,
                          !.items[index].ariaExpanded = "true",
                          !.items[index].buttonActive = TRUE,
                          !.items[index].hidden = FALSE]
           D == IF animate THEN animateOpen(C, index)
                ELSE [C EXCEPT !.items[index].maxHeight = "none",
                               !.items[index].panelActive = TRUE]
       IN [D EXCEPT !.toggles = Append(@, [index |-> index, isOpen |-> TRUE])]

\* toggle(index)
toggle(A, options, index) ==
  IF index < 0 \/ index >= NumItems THEN A
  ELSE IF A.items[index].isOpen THEN close(A, index, TRUE)
  ELSE open(A, options, index, TRUE)

\* openAll(): this.items.forEach((_, index) => this.open(index)), from i on
RECURSIVE openAllFrom(_, _, _)
openAllFrom(A, options, i) ==
  IF i >= NumItems THEN A ELSE openAllFrom(open(A, options, i, TRUE), options, i + 1)

\* closeAll(), from i on
RECURSIVE closeAllFrom(_, _)
closeAllFrom(A, i) ==
  IF i >= NumItems THEN A ELSE closeAllFrom(close(A, i, TRUE), i + 1)

\* init: options.defaultOpen.forEach, opening without animation
RECURSIVE openDefaults(_, _, _)
openDefaults(A, options, list) ==
  IF list = << >> THEN A
  ELSE openDefaults(IF Head(list) >= 0 /\ Head(list) < NumItems
                      THEN open(A, options, Head(list), FALSE) ELSE A,
                    options, Tail(list))

\* the defaultOpen lists the accordion is constructed with
DefaultOpenLists == {<< >>, <<0, 2, 5>>}

\* the panels that are open
OpenPanels(items) == {i \in DOMAIN items : items[i].isOpen}

\* new Accordion(container, options)
ACInit ==
  /\ acOptions \in [allowMultiple : BOOLEAN, defaultOpen : DefaultOpenLists]
  /\ LET A == openDefaults([items |-> [i \in Indices |-> ClosedItem], timers |-> << >>,
                            toggles |-> << >>],
                           acOptions, acOptions.defaultOpen)
     IN /\ acItems = A.items
        /\ acTimers = A.timers
        /\ acToggles = A.toggles
  /\ acFocus = -1
  /\ acOps = 0
  /\ acHist = [op |-> "init", index |-> -1, before |-> {}]

\* the state the operations work on; toggles starts empty with each operation
AcState == [items |-> acItems, timers |-> acTimers, toggles |-> << >>]

\* the operation named op with argument index has produced A
AcDone(A, op, index) ==
  /\ acOps < MaxAcOps
  /\ acOps' = acOps + 1
  /\ acItems' = A.items
  /\ acTimers' = A.timers
  /\ acToggles' = A.toggles
  /\ acHist' = [op |-> op, index |-> index, before |-> OpenPanels(acItems)]
  /\ UNCHANGED <<acOptions, FrameAC>>

\* 'click' on the button of item index, which takes the focus: toggle(index)
AcClick(index) ==
  /\ AcDone(toggle(AcState, acOptions, index), "toggle", index)
  /\ acFocus' = index

\* 'keydown' on the focused button: Enter and Space toggle, the arrow keys,
\* Home and End move the focus
AcKeydown(key) ==
  /\ acFocus # -1
  /\ CASE key \in {"Enter", " "} ->
            /\ AcDone(toggle(AcState, acOptions, acFocus), "toggle", acFocus)
            /\ acFocus' = acFocus
       [] key = "ArrowDown" ->
            /\ AcDone(AcState, "focus", acFocus)
            /\ acFocus' = (acFocus + 1) % NumItems
       [] key = "ArrowUp" ->
            /\ AcDone(AcState, "focus", acFocus)
            /\ acFocus' = IF acFocus = 0 THEN NumItems - 1 ELSE acFocus - 1
       [] key = "Home" ->
            /\ AcDone(AcState, "focus", acFocus)
            /\ acFocus' = 0
       [] key = "End" ->
            /\ AcDone(AcState, "focus", acFocus)
            /\ acFocus' = NumItems - 1

\* accordion.open(index)
AcOpen(index) ==
  /\ AcDone(open(AcState, acOptions, index, TRUE), "open", index)
  /\ UNCHANGED acFocus

\* accordion.close(index)
AcClose(index) ==
  /\ AcDone(close(AcState, index, TRUE), "close", index)
  /\ UNCHANGED acFocus

\* accordion.openAll()
AcOpenAll ==
  /\ AcDone(openAllFrom(AcState, acOptions, 0), "openAll", -1)
  /\ UNCHANGED acFocus

\* accordion.closeAll()
AcCloseAll ==
  /\ AcDone(closeAllFrom(AcState, 0), "closeAll", -1)
  /\ UNCHANGED acFocus

\* the oldest pending clean-up callback is due and runs (the delays are all
\* the same, so the callbacks run in the order they were set)
AcTimerFire ==
  /\ acTimers # << >>
  /\ Head(acTimers).remaining = 0
  /\ acTimers' = Tail(acTimers)
  /\ acItems' = IF Head(acTimers).kind = "opened"
                  THEN [acItems EXCEPT ![Head(acTimers).index].maxHeight = "none",
                                       ![Head(acTimers).index].transition = FALSE]
                  ELSE [acItems EXCEPT ![Head(acTimers).index].hidden = TRUE,
                                       ![Head(acTimers).index].maxHeight = "",
                                       ![Head(acTimers).index].transition = FALSE]
  /\ UNCHANGED <<acOptions, acToggles, acFocus, acOps, acHist, FrameAC>>

\* dt ms pass; no clean-up is overdue
AcAdvance(dt) ==
  /\ dt > 0
  /\ acTimers # << >>
  /\ Head(acTimers).remaining >= dt
  /\ acTimers' = [i \in 1..Len(acTimers) |-> [acTimers[i] EXCEPT !.remaining = @ - dt]]
  /\ UNCHANGED <<acOptions, acItems, acToggles, acFocus, acOps, acHist, FrameAC>>

AcKeys == {"Enter", " ", "ArrowDown", "ArrowUp", "Home", "End"}

ACNext ==
  \/ \E index \in Indices : AcClick(index)
  \/ \E key \in AcKeys : AcKeydown(key)
  \/ \E index \in ApiIndices : AcOpen(index)
  \/ \E index \in ApiIndices : AcClose(index)
  \/ AcOpenAll
  \/ AcCloseAll
  \/ AcTimerFire
  \/ \E dt \in {animationDuration \div 2} \cup {acTimers[i].remaining : i \in 1..Len(acTimers)} : AcAdvance(dt)

(***************************************************************************)
(* Accordion: claims                                                       *)
(***************************************************************************)
\* C17: with allowMultiple = false at most one panel is open; when open or
\* toggle is called for a closed panel B while panel A is open, A is closed
\* and B is open afterwards and onToggle has been called once for each,
\* (A, false) then (B, true); open on an open panel and close on a closed
\* panel call onToggle not at all and change nothing.
C17_SingleOpen ==
  LET nowOpen == OpenPanels(acItems)
      h == acHist
  IN /\ ~acOptions.allowMultiple =>
          /\ Cardinality(nowOpen) <= 1
          /\ \A a \in Indices, b \in Indices :
               (h.op \in {"open", "toggle"} /\ h.index = b /\ h.before = {a} /\ a # b) =>
                 /\ nowOpen = {b}
                 /\ acToggles = <<[index |-> a, isOpen |-> FALSE], [index |-> b, isOpen |-> TRUE]>>
     /\ (h.op = "open" /\ h.index \in h.before) => (acToggles = << >> /\ nowOpen = h.before)
     /\ (h.op = "close" /\ h.index \notin h.before) => (acToggles = << >> /\ nowOpen = h.before)

\* C17 witness: in single-open mode a panel was opened while another was
\* open.
C17_Witness ==
  /\ ~acOptions.allowMultiple
  /\ acHist.op \in {"open", "toggle"}
  /\ Cardinality(acHist.before) = 1
  /\ acHist.index \in Indices \ acHist.before
  /\ Len(acToggles) = 2

\* C18: once no animation clean-up is pending, every panel has
\* aria-expanded = isOpen and hidden = not isOpen.
C18_AnimationIsCosmetic ==
  acTimers = << >> =>
    \A i \in Indices :
      /\ acItems[i].ariaExpanded = (IF acItems[i].isOpen THEN "true" ELSE "false")
      /\ acItems[i].hidden = ~acItems[i].isOpen

(***************************************************************************)
(* Modal (docs/js/components/Modal.js)                                     *)
(***************************************************************************)
MaxMdOps == 4

\* the modal elements of the page; "missing" is an id no element has
ModalIds == {"a", "b"}
OpenIds == ModalIds \cup {"missing"}

\* getFocusableElements: modal a holds a close button and a button, modal b
\* holds text only
Focusables(modal) == IF modal = "a" THEN <<"a.close", "a.ok">> ELSE << >>

\* the focusable elements of the page outside the modals
PageElements == {"link", "triggerA", "triggerB", "triggerMissing"}

\* [data-modal-trigger] elements and the id each one names
Triggers == {"triggerA", "triggerB", "triggerMissing"}
TriggerTarget(t) ==
  CASE t = "triggerA" -> "a"
    [] t = "triggerB" -> "b"
    [] OTHER -> "missing"

\* [data-modal-close] buttons
CloseButtons == {"a.close"}
CloseButtonModal(btn) == "a"

ModalOptionSets == [closeOnBackdrop : BOOLEAN, closeOnEscape : BOOLEAN, trapFocus : BOOLEAN]

\* let modalInstance = null
NoInstance ==
  [created |-> FALSE,
   options |-> [closeOnBackdrop |-> TRUE, closeOnEscape |-> TRUE, trapFocus |-> TRUE],
   activeModal |-> "null",
   focusedElementBeforeModal |-> "null"]

\* new Modal(options)
NewModal(options) ==
  [created |-> TRUE,
   options |-> options,
   activeModal |-> "null",
   focusedElementBeforeModal |-> "null"]

\* a modal element as Modal.create leaves it
HiddenModal ==
  [active |-> FALSE, ariaHidden |-> "true", ariaModal |-> FALSE, role |-> "none",
   backdropListener |-> FALSE, focusTraps |-> 0]

\* the state a handler of the modal works on
ModalState ==
  [instance |-> modalInstance, elements |-> mdElements, document |-> mdDocument,
   frames |-> mdFrames, announcements |-> mdAnnouncements, calls |-> << >>]

\* announceToScreenReader: the status element stays in the body for a second
announceToScreenReader(M, message) ==
  [M EXCEPT !.announcements = Append(@, message)]

\* this.focusedElementBeforeModal = document.activeElement
CapturedFocusNone(document) == "null"

CapturedFocus(document) == document.activeElement

\* Modal.open
modalOpen(M, modalId) ==
  IF modalId \notin ModalIds THEN M
  ELSE
    LET options == M.instance.options
        trapped == options.trapFocus /\ Focusables(modalId) # << >>
        shown ==
          [M EXCEPT
             !.instance.focusedElementBeforeModal = CapturedFocus(M.document),
             !.instance.activeModal = modalId,
             !.elements[modalId].active = TRUE,
             !.elements[modalId].ariaHidden = "false",
             !.elements[modalId].ariaModal = TRUE,
             !.elements[modalId].role = "dialog",
             !.document.overflow = "hidden",
             !.document.modalOpen = TRUE,
             !.document.keydownListener = @ \/ options.closeOnEscape,
             !.elements[modalId].backdropListener = @ \/ options.closeOnBackdrop,
             !.frames = Append(@, modalId),
             !.elements[modalId].focusTraps = IF trapped THEN @ + 1 ELSE @,
             !.calls = Append(@, [fn |-> "onOpen", modal |-> modalId])]
    IN announceToScreenReader(shown, "Dialog opened")

\* Modal.close
modalClose(M) ==
  IF M.instance.activeModal = "null" THEN M
  ELSE
    LET modal == M.instance.activeModal
        before == M.instance.focusedElementBeforeModal
        hidden ==
          [M EXCEPT
             !.elements[modal].active = FALSE,
             !.elements[modal].ariaHidden = "true",
             !.elements[modal].ariaModal = FALSE,
             !.document.overflow = "",
             !.document.modalOpen = FALSE,
             !.document.keydownListener = FALSE,
             !.elements[modal].backdropListener = FALSE,
             !.document.activeElement = IF before # "null" THEN before ELSE @,
             !.calls = Append(@, [fn |-> "onClose", modal |-> modal])]
        announced == announceToScreenReader(hidden, "Dialog closed")
    IN [announced EXCEPT
          !.instance.activeModal = "null",
          !.instance.focusedElementBeforeModal = "null"]

\* Modal.toggle
modalToggle(M, modalId) ==
  IF M.instance.activeModal # "null" /\ M.instance.activeModal = modalId
    THEN modalClose(M)
    ELSE modalOpen(M, modalId)

\* Modal.isOpen
isOpen(instance) == instance.activeModal # "null"

\* a modal element in the shown state
Shown(elements, modal) ==
  elements[modal].active /\ elements[modal].ariaHidden = "false"

\* the page after its scripts have loaded: no modal instance yet
MDInit ==
  /\ modalInstance = NoInstance
  /\ mdElements = [m \in ModalIds |-> HiddenModal]
  /\ mdDocument = [activeElement |-> "link", overflow |-> "", modalOpen |-> FALSE,
                   keydownListener |-> FALSE]
  /\ mdFrames = << >>
  /\ mdAnnouncements = << >>
  /\ mdCalls = << >>
  /\ mdOps = 0
  /\ mdHist = [op |-> "none", id |-> "null", before |-> ModalState,
               captured |-> "null"]

\* a handler that started in B has run and left M
MdDone(B, M, op, id) ==
  /\ modalInstance' = M.instance
  /\ mdElements' = M.elements
  /\ mdDocument' = M.document
  /\ mdFrames' = M.frames
  /\ mdAnnouncements' = M.announcements
  /\ mdCalls' = M.calls
  /\ mdHist' = [op |-> op, id |-> id, before |-> B,
                captured |-> IF op = "open" /\ id \in ModalIds
                               THEN B.document.activeElement
                               ELSE mdHist.captured]
  /\ UNCHANGED FrameMD

MdEvent == mdOps < MaxMdOps /\ mdOps' = mdOps + 1
MdInternal == UNCHANGED mdOps

\* getModalInstance(options)
GetModalInstance(options) ==
  /\ MdEvent
  /\ MdDone(ModalState, [ModalState EXCEPT !.instance =
               IF ~modalInstance.created THEN NewModal(options) ELSE @],
            "getModalInstance", "null")

\* the user moves the focus to an element of the page while no modal covers it
MdFocus(el) ==
  /\ MdEvent
  /\ \A m \in ModalIds : ~mdElements[m].active
  /\ el # mdDocument.activeElement
  /\ MdDone(ModalState, [ModalState EXCEPT !.document.activeElement = el], "focus", el)

\* the 'click' listener of a [data-modal-trigger] element; the click leaves
\* the focus on the trigger or where it was, depending on the browser
TriggerClick(t) ==
  /\ MdEvent
  /\ modalInstance.created
  /\ \E f \in {t, mdDocument.activeElement} :
       LET clicked == [ModalState EXCEPT !.document.activeElement = f]
       IN MdDone(clicked, modalOpen(clicked, TriggerTarget(t)), "open", TriggerTarget(t))

\* the 'click' listener of a [data-modal-close] button
CloseButtonClick(btn) ==
  /\ MdEvent
  /\ modalInstance.created
  /\ mdElements[CloseButtonModal(btn)].active
  /\ MdDone(ModalState, modalClose(ModalState), "close", "null")

\* modal.open(modalId)
MdOpen(modalId) ==
  /\ MdEvent
  /\ modalInstance.created
  /\ MdDone(ModalState, modalOpen(ModalState, modalId), "open", modalId)

\* modal.close()
MdClose ==
  /\ MdEvent
  /\ modalInstance.created
  /\ MdDone(ModalState, modalClose(ModalState), "close", "null")

\* modal.toggle(modalId)
MdToggle(modalId) ==
  /\ MdEvent
  /\ modalInstance.created
  /\ LET M == modalToggle(ModalState, modalId)
     IN MdDone(ModalState, M, IF isOpen(modalInstance) /\ modalInstance.activeModal = modalId
                    THEN "close" ELSE "open", modalId)

ModalKeys == {"Escape", "Enter"}

\* Modal.handleKeydown, while the document listener is registered
MdKeydown(key) ==
  /\ MdEvent
  /\ mdDocument.keydownListener
  /\ MdDone(ModalState, IF key = "Escape" /\ modalInstance.options.closeOnEscape
              THEN modalClose(ModalState)
              ELSE ModalState,
            IF key = "Escape" /\ modalInstance.options.closeOnEscape
              THEN "close" ELSE "key", "null")

\* the position of a focusable element in the list of its modal
FocusIndex(focusables, el) ==
  CHOOSE i \in 1..Len(focusables) : focusables[i] = el

\* where the browser moves the focus on Tab or Shift+Tab when no handler
\* prevents it: the next or previous focusable element, the page's "link"
\* past either end of the modal
DefaultTab(focusables, el, shiftKey) ==
  LET i == FocusIndex(focusables, el)
  IN IF shiftKey
       THEN IF i > 1 THEN focusables[i - 1] ELSE "link"
       ELSE IF i < Len(focusables) THEN focusables[i + 1] ELSE "link"

\* handleTabKey of setupFocusTrap: the element that has the focus after the
\* handler, and whether it called preventDefault
handleTabKey(focusables, el, shiftKey) ==
  LET firstFocusable == focusables[1]
      lastFocusable == focusables[Len(focusables)]
  IN IF shiftKey
       THEN IF el = firstFocusable
              THEN [activeElement |-> lastFocusable, prevented |-> TRUE]
              ELSE [activeElement |-> el, prevented |-> FALSE]
       ELSE IF el = lastFocusable
              THEN [activeElement |-> firstFocusable, prevented |-> TRUE]
              ELSE [activeElement |-> el, prevented |-> FALSE]

\* the keydown listeners of the modal run one after the other, n of them
RECURSIVE TabHandlers(_, _, _, _)
TabHandlers(n, focusables, r, shiftKey) ==
  IF n = 0 THEN r
  ELSE LET h == handleTabKey(focusables, r.activeElement, shiftKey)
       IN TabHandlers(n - 1, focusables,
                      [activeElement |-> h.activeElement,
                       prevented |-> r.prevented \/ h.prevented], shiftKey)

\* Tab or Shift+Tab pressed while the focus is on an element of a shown modal
TabKey(modal, shiftKey) ==
  /\ MdEvent
  /\ mdElements[modal].active
  /\ \E i \in 1..Len(Focusables(modal)) : Focusables(modal)[i] = mdDocument.activeElement
  /\ LET el == mdDocument.activeElement
         r == TabHandlers(mdElements[modal].focusTraps, Focusables(modal),
                          [activeElement |-> el, prevented |-> FALSE], shiftKey)
         focus == IF r.prevented THEN r.activeElement
                  ELSE DefaultTab(Focusables(modal), el, shiftKey)
     IN MdDone(ModalState, [ModalState EXCEPT !.document.activeElement = focus],
               IF shiftKey THEN "shiftTab" ELSE "tab", modal)

\* Modal.handleBackdropClick: a click on the modal element itself
BackdropClick(modal) ==
  /\ MdEvent
  /\ mdElements[modal].backdropListener
  /\ mdElements[modal].active
  /\ MdDone(ModalState, IF modal = modalInstance.activeModal
              THEN modalClose(ModalState)
              ELSE ModalState,
            IF modal = modalInstance.activeModal THEN "close" ELSE "click", "null")

\* the requestAnimationFrame callback of open: focus the first focusable
\* element of the modal, or the modal itself
AnimationFrame ==
  /\ MdInternal
  /\ mdFrames # << >>
  /\ LET modal == Head(mdFrames)
         firstFocusable == IF Focusables(modal) # << >>
                             THEN Focusables(modal)[1]
                             ELSE modal
     IN MdDone(ModalState, [ModalState EXCEPT !.frames = Tail(@),
                                  !.document.activeElement = firstFocusable],
               "frame", modal)

\* the setTimeout callback of announceToScreenReader: announcement.remove()
AnnouncementRemove ==
  /\ MdInternal
  /\ mdAnnouncements # << >>
  /\ MdDone(ModalState, [ModalState EXCEPT !.announcements = Tail(@)], "remove", "null")

MDNext ==
  \/ \E options \in ModalOptionSets : GetModalInstance(options)
  \/ \E el \in PageElements : MdFocus(el)
  \/ \E t \in Triggers : TriggerClick(t)
  \/ \E btn \in CloseButtons : CloseButtonClick(btn)
  \/ \E modalId \in OpenIds : MdOpen(modalId)
  \/ MdClose
  \/ \E modalId \in OpenIds : MdToggle(modalId)
  \/ \E key \in ModalKeys : MdKeydown(key)
  \/ \E modal \in ModalIds, shiftKey \in BOOLEAN : TabKey(modal, shiftKey)
  \/ \E modal \in ModalIds : BackdropClick(modal)
  \/ AnimationFrame
  \/ AnnouncementRemove

(***************************************************************************)
(* Modal: claims                                                           *)
(***************************************************************************)
\* C19: open captures the element that has the focus when it is called, and
\* the close that follows gives the focus back to that element; after that
\* close the instance has no active modal, the modal it closed is hidden
\* (aria-hidden "true", no modal--active class), the body scrolls again and
\* the Escape and backdrop listeners are gone; a close with no active modal
\* changes nothing.
C19_OpenCloseFocus ==
  LET B == mdHist.before
      modal == B.instance.activeModal
  IN /\ (mdHist.op = "open" /\ mdHist.id \in ModalIds) =>
          /\ modalInstance.activeModal = mdHist.id
          /\ modalInstance.focusedElementBeforeModal = B.document.activeElement
     /\ (mdHist.op = "close" /\ modal # "null") =>
          /\ mdDocument.activeElement = mdHist.captured
          /\ modalInstance.activeModal = "null"
          /\ modalInstance.focusedElementBeforeModal = "null"
          /\ ~mdElements[modal].active
          /\ mdElements[modal].ariaHidden = "true"
          /\ ~mdElements[modal].ariaModal
          /\ mdDocument.overflow = ""
          /\ ~mdDocument.modalOpen
          /\ ~mdDocument.keydownListener
          /\ ~mdElements[modal].backdropListener
          /\ mdCalls = <<[fn |-> "onClose", modal |-> modal]>>
     /\ (mdHist.op = "close" /\ modal = "null") =>
          /\ modalInstance = B.instance
          /\ mdElements = B.elements
          /\ mdDocument = B.document
          /\ mdFrames = B.frames
          /\ mdAnnouncements = B.announcements
          /\ mdCalls = << >>

\* a modal opened from a trigger, focus moved into it, then closed again
C19_Witness ==
  /\ mdHist.op = "close"
  /\ mdHist.before.instance.activeModal = "a"
  /\ mdHist.before.document.activeElement = "a.close"
  /\ mdHist.before.document.keydownListener
  /\ mdHist.before.elements["a"].backdropListener
  /\ mdHist.captured = "triggerA"
  /\ mdDocument.activeElement = "triggerA"

\* C20: at most one modal element is in the shown state (modal--active,
\* aria-hidden "false") after any sequence of open, toggle and close on the
\* singleton, and no modal element is shown whenever isOpen() is false.
C20_AtMostOneShown ==
  /\ Cardinality({m \in ModalIds : Shown(mdElements, m)}) <= 1
  /\ ~isOpen(modalInstance) => \A m \in ModalIds : ~Shown(mdElements, m)

\* C33: while a modal opened with trapFocus is shown, Tab on its last
\* focusable element moves the focus to the first and Shift+Tab on the first
\* moves it to the last, so the focus stays in the modal; and whatever the
\* sequence of open and close, a modal element has at most one focus-trap
\* keydown handler attached.
C33_FocusTrapOnce ==
  /\ (mdHist.op \in {"tab", "shiftTab"} /\ modalInstance.options.trapFocus) =>
       \E i \in 1..Len(Focusables(mdHist.id)) :
          Focusables(mdHist.id)[i] = mdDocument.activeElement
  /\ \A m \in ModalIds : mdElements[m].focusTraps <= 1

(***************************************************************************)
(* ComparisonSlider (deploy/js/comparison-slider.js)                       *)
(*                                                                         *)
(* Percentages are counted in tenths of a percent: 500 is 50%.             *)
(***************************************************************************)
MaxCsOps == 4

Percent(n) == n * 10

\* Math.round of a percentage: the nearest whole percent, halves upwards
MathRound(p) == Percent((p + 5) \div 10)

Min(a, b) == IF a <= b THEN a ELSE b

\* container.getBoundingClientRect(): the container is 200 px wide at x = 20
RectLeft == 20
RectWidth == 200

\* the clientX of the pointer events tried
ClientXs == {0, 10, 20, 21, 87, 120, 219, 220, 300}

\* options.initialPosition
InitialPositions == {Percent(0), Percent(50), Percent(100)}

\* setPosition: what it writes to the DOM for a percentage
PositionedDom(dom, percentage) ==
  [dom EXCEPT !.clipRight = Percent(100) - percentage,
              !.handleLeft = percentage,
              !.ariaValueNow = MathRound(percentage),
              !.beforeLabelLeft = Max(Percent(10), percentage - Percent(25)),
              !.afterLabelRight = Max(Percent(10), Percent(100) - percentage - Percent(25))]

\* (x / rect.width) * 100 for x = clientX - rect.left
DragPercentage(clientX) == ((clientX - RectLeft) * Percent(100)) \div RectWidth

\* Math.max(0, Math.min(100, percentage))
Clamped(percentage) == Max(Percent(0), Min(Percent(100), percentage))

\* the percentage handleKeydown hands to setPosition
KeyTarget(position, key) ==
  CASE key \in {"ArrowLeft", "ArrowDown"} -> position - Percent(1)
    [] key \in {"ArrowRight", "ArrowUp"} -> position + Percent(1)
    [] key = "Home" -> Percent(0)
    [] key = "End" -> Percent(100)

SliderKeys == {"ArrowLeft", "ArrowDown", "ArrowRight", "ArrowUp", "Home", "End", "Tab"}

\* the listeners init registers, each with a function made by bind()
RegisteredByInit ==
  {[target |-> "handle", type |-> "mousedown", fn |-> 1],
   [target |-> "handle", type |-> "touchstart", fn |-> 2],
   [target |-> "document", type |-> "mousemove", fn |-> 3],
   [target |-> "document", type |-> "touchmove", fn |-> 4],
   [target |-> "document", type |-> "mouseup", fn |-> 5],
   [target |-> "document", type |-> "touchend", fn |-> 6],
   [target |-> "handle", type |-> "keydown", fn |-> 7],
   [target |-> "window", type |-> "resize", fn |-> 8]}

\* the removeEventListener calls of destroy, each with a function that
\* bind() makes for the call: the n-th bound function so far and the next four
DestroyRemovals(n) ==
  {[target |-> "document", type |-> "mousemove", fn |-> n + 1],
   [target |-> "document", type |-> "touchmove", fn |-> n + 2],
   [target |-> "document", type |-> "mouseup", fn |-> n + 3],
   [target |-> "document", type |-> "touchend", fn |-> n + 4],
   [target |-> "window", type |-> "resize", fn |-> n + 5]}

\* is a listener for the event registered on the target
Listening(listeners, target, type) ==
  \E l \in listeners : l.target = target /\ l.type = type

\* the DOM of the slider before the constructor has run
BareDom ==
  [clipRight |-> -1, handleLeft |-> -1, ariaValueNow |-> -1,
   beforeLabelLeft |-> -1, afterLabelRight |-> -1,
   role |-> "none", labels |-> FALSE, dragging |-> FALSE, focus |-> FALSE]

\* new ComparisonSlider(container, options): constructor and init
CSInit ==
  /\ \E mounted \in BOOLEAN, initialPosition \in InitialPositions :
       /\ csSlider = [mounted |-> mounted, position |-> initialPosition,
                      isDragging |-> FALSE, destroyed |-> FALSE]
       /\ csDom = IF mounted
                    THEN [PositionedDom(BareDom, initialPosition) EXCEPT
                            !.ariaValueNow = initialPosition,
                            !.role = "slider",
                            !.labels = TRUE]
                    ELSE BareDom
       /\ csListeners = IF mounted THEN RegisteredByInit ELSE {}
       /\ csBinds = IF mounted THEN 8 ELSE 0
  /\ csOps = 0
  /\ csHist = [op |-> "none", slider |-> csSlider, dom |-> csDom]

\* no slider on the page: the container lacks its images and handle
CSIdle == CSInit /\ ~csSlider.mounted /\ csSlider.position = Percent(50)

\* an event or API call named op has run
CsDone(op) ==
  /\ csOps < MaxCsOps
  /\ csOps' = csOps + 1
  /\ csHist' = [op |-> op, slider |-> csSlider, dom |-> csDom]
  /\ UNCHANGED FrameCS

\* startDrag: 'mousedown' or 'touchstart' on the handle
StartDrag(type) ==
  /\ Listening(csListeners, "handle", type)
  /\ csSlider' = [csSlider EXCEPT !.isDragging = TRUE]
  /\ csDom' = [csDom EXCEPT !.dragging = TRUE, !.focus = TRUE]
  /\ UNCHANGED <<csListeners, csBinds>>
  /\ CsDone(type)

\* drag: 'mousemove' or 'touchmove' on the document; a mouse event at
\* clientX 0 reads e.touches[0] of an event without touches and throws
Drag(type, clientX) ==
  /\ Listening(csListeners, "document", type)
  /\ IF csSlider.isDragging /\ ~(type = "mousemove" /\ clientX = 0)
       THEN /\ csSlider' = [csSlider EXCEPT !.position = Clamped(DragPercentage(clientX))]
            /\ csDom' = PositionedDom(csDom, Clamped(DragPercentage(clientX)))
       ELSE UNCHANGED <<csSlider, csDom>>
  /\ UNCHANGED <<csListeners, csBinds>>
  /\ CsDone(type)

\* endDrag: 'mouseup' or 'touchend' on the document
EndDrag(type) ==
  /\ Listening(csListeners, "document", type)
  /\ IF csSlider.isDragging
       THEN /\ csSlider' = [csSlider EXCEPT !.isDragging = FALSE]
            /\ csDom' = [csDom EXCEPT !.dragging = FALSE]
       ELSE UNCHANGED <<csSlider, csDom>>
  /\ UNCHANGED <<csListeners, csBinds>>
  /\ CsDone(type)

\* handleKeydown: 'keydown' on the handle
SliderKeydown(key) ==
  /\ Listening(csListeners, "handle", "keydown")
  /\ IF key \in {"ArrowLeft", "ArrowDown", "ArrowRight", "ArrowUp", "Home", "End"}
       THEN /\ csSlider' = [csSlider EXCEPT !.position = KeyTarget(csSlider.position, key)]
            /\ csDom' = PositionedDom(csDom, KeyTarget(csSlider.position, key))
       ELSE UNCHANGED <<csSlider, csDom>>
  /\ UNCHANGED <<csListeners, csBinds>>
  /\ CsDone("keydown")

\* handleResize: 'resize' on the window
SliderResize ==
  /\ Listening(csListeners, "window", "resize")
  /\ csDom' = PositionedDom(csDom, csSlider.position)
  /\ UNCHANGED <<csSlider, csListeners, csBinds>>
  /\ CsDone("resize")

\* slider.reset() on a mounted slider
SliderReset ==
  /\ csSlider.mounted
  /\ csSlider' = [csSlider EXCEPT !.position = Percent(50)]
  /\ csDom' = PositionedDom(csDom, Percent(50))
  /\ UNCHANGED <<csListeners, csBinds>>
  /\ CsDone("reset")

\* slider.destroy()
SliderDestroy ==
  /\ csSlider' = [csSlider EXCEPT !.destroyed = TRUE]
  /\ csListeners' = csListeners \ DestroyRemovals(csBinds)
  /\ csBinds' = csBinds + 5
  /\ UNCHANGED csDom
  /\ CsDone("destroy")

CSNext ==
  \/ \E type \in {"mousedown", "touchstart"} : StartDrag(type)
  \/ \E type \in {"mousemove", "touchmove"} : \E clientX \in ClientXs : Drag(type, clientX)
  \/ \E type \in {"mouseup", "touchend"} : EndDrag(type)
  \/ \E key \in SliderKeys : SliderKeydown(key)
  \/ SliderResize
  \/ SliderReset
  \/ SliderDestroy

(***************************************************************************)
(* ComparisonSlider: claims                                                *)
(***************************************************************************)
\* C21: the position stays within 0..100 after any sequence of pointer drags
\* and ArrowLeft/ArrowRight/ArrowUp/ArrowDown/Home/End key presses, and
\* aria-valuenow equals the rounded position, hence stays between
\* aria-valuemin 0 and aria-valuemax 100.
C21_PositionInRange ==
  csSlider.mounted =>
    /\ csSlider.position >= Percent(0)
    /\ csSlider.position <= Percent(100)
    /\ csDom.ariaValueNow = MathRound(csSlider.position)
    /\ csDom.ariaValueNow >= Percent(0)
    /\ csDom.ariaValueNow <= Percent(100)

\* C22: after destroy no mousemove, touchmove, mouseup, touchend or resize
\* event changes the slider position, its dragging flag or its DOM.
C22_DestroyDetaches ==
  (csHist.slider.destroyed
     /\ csHist.op \in {"mousemove", "touchmove", "mouseup", "touchend", "resize"}) =>
    /\ csSlider.position = csHist.slider.position
    /\ csSlider.isDragging = csHist.slider.isDragging
    /\ csDom = csHist.dom

(***************************************************************************)
(* Mounting: PropertyFilter.init, FormValidator.init, Accordion.init and    *)
(* ComparisonSlider.init on a page that holds or lacks their elements       *)
(***************************************************************************)

SliderParts == {"before", "after", "handle"}

\* slider containers: an empty one, one without its handle, a whole one
SliderContainers == {{}, {"before", "after"}, SliderParts}

\* the elements of a page: the filter container, the form, the accordion
\* container, and the parts the slider container holds
Pages ==
  [filter : BOOLEAN, form : BOOLEAN, accordion : BOOLEAN,
   slider : SliderContainers]

\* if (!this.container) return, if (!this.form) return
MountedAlways(element) == TRUE

Mounted(element) == element

\* if (!this.beforeImage || !this.afterImage || !this.handle) return
HasSliderParts(parts) ==
  "before" \in parts /\ "after" \in parts /\ "handle" \in parts

\* attachEventListeners of the filter
FilterListeners ==
  {[target |-> "property-search", type |-> "input"],
   [target |-> "property-search", type |-> "keydown"],
   [target |-> "filter-bedrooms", type |-> "change"],
   [target |-> "filter-bathrooms", type |-> "change"],
   [target |-> "filter-property-type", type |-> "change"],
   [target |-> "filter-min-price", type |-> "input"],
   [target |-> "filter-max-price", type |-> "input"],
   [target |-> "filter-tags", type |-> "click"],
   [target |-> "reset-filters", type |-> "click"]}

\* createFilterUI, render and updateResultsCount
FilterWrites == {"filter-bar", "property-cards", "results-count"}

\* setupField and the submit handler of the form
FormListeners ==
  {[target |-> "field", type |-> "blur"],
   [target |-> "field", type |-> "input"],
   [target |-> "form", type |-> "submit"]}

FormWrites == {"novalidate", "field-error", "aria-describedby"}

\* the listeners and attributes of the accordion's buttons and panels
AccordionListeners ==
  {[target |-> "accordion-button", type |-> "click"],
   [target |-> "accordion-button", type |-> "keydown"]}

AccordionWrites == {"aria-expanded", "aria-controls", "aria-labelledby"}

\* the listeners of the slider, and what init writes
SliderListeners ==
  {[target |-> l.target, type |-> l.type] : l \in RegisteredByInit}

SliderWrites == {"slider-position", "slider-aria", "slider-labels"}

\* the components, and what the constructor and init of each register and
\* write when its element is there
Components == {"PropertyFilter", "FormValidator", "Accordion", "ComparisonSlider"}

ListenersOf(component) ==
  CASE component = "PropertyFilter" -> FilterListeners
    [] component = "FormValidator" -> FormListeners
    [] component = "Accordion" -> AccordionListeners
    [] component = "ComparisonSlider" -> SliderListeners

WritesOf(component) ==
  CASE component = "PropertyFilter" -> FilterWrites
    [] component = "FormValidator" -> FormWrites
    [] component = "Accordion" -> AccordionWrites
    [] component = "ComparisonSlider" -> SliderWrites

\* is the element of the component missing from the page
Absent(component, page) ==
  CASE component = "PropertyFilter" -> ~page.filter
    [] component = "FormValidator" -> ~page.form
    [] component = "Accordion" -> ~page.accordion
    [] component = "ComparisonSlider" -> SliderParts \ page.slider # {}

\* the page before any component is constructed
MTInit ==
  /\ mtPage \in Pages
  /\ mtListeners = {}
  /\ mtDom = {}
  /\ mtTimers = {}
  /\ mtThrown = FALSE
  /\ mtRan = {}

\* a page without any of the elements, and nothing constructed
MTIdle ==
  /\ MTInit
  /\ mtPage = [filter |-> FALSE, form |-> FALSE, accordion |-> FALSE, slider |-> {}]

\* the page's script constructs the component, once
MtDone(component) ==
  /\ component \notin mtRan
  /\ mtRan' = mtRan \cup {component}
  /\ UNCHANGED <<mtPage, FrameMT>>

\* what a method does with the element it works on: it registers the
\* listeners and makes the writes, and reading a property of an element
\* that is not there throws a TypeError
OnElement(present, listeners, writes) ==
  IF present
    THEN /\ mtListeners' = mtListeners \cup listeners
         /\ mtDom' = mtDom \cup writes
         /\ UNCHANGED mtThrown
    ELSE /\ mtThrown' = TRUE
         /\ UNCHANGED <<mtListeners, mtDom>>

\* init returns before it does anything
Returned == UNCHANGED <<mtListeners, mtDom, mtThrown>>

\* new PropertyFilter(properties, selector) and init()
PropertyFilterInit ==
  /\ MtDone("PropertyFilter")
  /\ IF ~Mounted(mtPage.filter) THEN Returned
     ELSE OnElement(mtPage.filter, FilterListeners, FilterWrites)
  /\ UNCHANGED mtTimers

\* new FormValidator(selector): the constructor builds the rate limiter, whose
\* constructor starts the cleanup interval, and calls init()
FormValidatorInit ==
  /\ MtDone("FormValidator")
  /\ mtTimers' = mtTimers \cup {"cleanupInterval"}
  /\ IF ~Mounted(mtPage.form) THEN Returned
     ELSE OnElement(mtPage.form, FormListeners, FormWrites)

\* new Accordion(selector): the constructor calls init()
AccordionInit ==
  /\ MtDone("Accordion")
  /\ IF ~Mounted(mtPage.accordion) THEN Returned
     ELSE OnElement(mtPage.accordion, AccordionListeners, AccordionWrites)
  /\ UNCHANGED mtTimers

\* new ComparisonSlider(container): the constructor calls init()
ComparisonSliderInit ==
  /\ MtDone("ComparisonSlider")
  /\ IF ~HasSliderParts(mtPage.slider) THEN Returned
     ELSE OnElement(TRUE, SliderListeners, SliderWrites)
  /\ UNCHANGED mtTimers

MTNext ==
  \/ PropertyFilterInit
  \/ FormValidatorInit
  \/ AccordionInit
  \/ ComparisonSliderInit
  \/ \E options \in ModalOptionSets : GetModalInstance(options)
  \/ \E id \in OpenIds : MdOpen(id)

MaxSubmits == 5
PageForms == {"contact", "application"}
SubmitSteps == {0, 20000, 60000}

\* createFormRateLimiter: new RateLimiter(3, 60000)
FormMaxAttempts == 3
FormWindowMs == 60000

\* initFormValidators: a FormValidator per form; the constructor of each calls
\* createFormRateLimiter, and the RateLimiter constructor makes a new Map
SHInit ==
  /\ shNow = 0
  /\ shAttempts = [f \in PageForms |-> << >>]
  /\ shCalls = << >>

\* handleSubmit of the form's validator, up to the rate limit check: the
\* identifier is the same for every form of the page
RateLimitCheck(f, dt) ==
  /\ Len(shCalls) < MaxSubmits
  /\ shNow' = shNow + dt
  /\ LET r == isAllowed(shAttempts[f], UserKey, shNow', FormMaxAttempts, FormWindowMs)
     IN /\ shAttempts' = [shAttempts EXCEPT ![f] = r.map]
        /\ shCalls' = Append(shCalls, [form |-> f, now |-> shNow', allowed |-> r.allowed])
  /\ UNCHANGED FrameSH

SHNext == \E f \in PageForms, dt \in SubmitSteps : RateLimitCheck(f, dt)

\* the submits, through any form of the page, that were let through during
\* the window that ends with the i-th submit
EarlierAllowed(i) ==
  {j \in 1..(i - 1) :
     shCalls[j].allowed /\ shCalls[i].now - shCalls[j].now < FormWindowMs}

\* C25: the forms of a page share the attempt storage of the default limiter:
\* a submit is let through only if fewer than maxAttempts submits, through any
\* form of the page, were let through in the window before it
C25_SharedAttempts ==
  \A i \in 1..Len(shCalls) :
    shCalls[i].allowed => Cardinality(EarlierAllowed(i)) < FormMaxAttempts

(***************************************************************************)
(* RateLimiter.cleanup, next to a run of the same calls without it         *)
(***************************************************************************)

MaxCleanups == 1
MaxLimiterCalls == 5
\* the time between two operations, and between an operation and a sweep
CallSteps == {0, 1000, 2000}
SweepSteps == {0, 1000}

\* RateLimiter.getAttemptCount(key) at clock value t
getAttemptCount(map, key, t, w) == Len(Prune(MapGet(map, key), t, w))

\* RateLimiter.getRemainingAttempts(key) at clock value t
getRemainingAttempts(map, key, t, max, w) ==
  Max(0, max - Len(Prune(MapGet(map, key), t, w)))

\* faulty variant: the sweep drops every key
cleanupClear(map, t, w) == << >>

\* RateLimiter.cleanup at clock value t: keys without a valid attempt are
\* collected and deleted, a list that lost attempts is stored pruned
cleanup(map, t, w) ==
  LET expiredKeys == {key \in DOMAIN map : Prune(map[key], t, w) = << >>}
  IN [key \in (DOMAIN map) \ expiredKeys |->
        IF Len(Prune(map[key], t, w)) # Len(map[key])
          THEN Prune(map[key], t, w)
          ELSE map[key]]

\* what a caller sees of an isAllowed result
Answer(r) ==
  [allowed |-> r.allowed, retryAfter |-> r.retryAfter, attempts |-> r.attempts,
   remainingAttempts |-> r.remainingAttempts]

\* no cleanup has run
CKInit ==
  /\ ckShadow = << >>
  /\ ckHist = [op |-> "none", calls |-> 0, cleanups |-> 0, before |-> << >>,
               after |-> << >>, refused |-> FALSE]

\* isAllowed(key), dt ms after the previous operation
CkIsAllowed(key, dt) ==
  /\ ckHist.calls < MaxLimiterCalls
  /\ now' = now + dt
  /\ attempts' = isAllowed(attempts, key, now', maxAttempts, windowMs).map
  /\ ckShadow' = isAllowed(ckShadow, key, now', maxAttempts, windowMs).map
  /\ ckHist' = [ckHist EXCEPT
                  !.op = "isAllowed",
                  !.calls = @ + 1,
                  !.refused = /\ attempts # ckShadow
                              /\ ~isAllowed(attempts, key, now', maxAttempts,
                                            windowMs).allowed]
  /\ UNCHANGED <<maxAttempts, windowMs, calls>>
  /\ UNCHANGED FrameCK

\* the interval callback runs cleanup, dt ms after the previous operation
CleanupTick(dt) ==
  /\ ckHist.cleanups < MaxCleanups
  /\ now' = now + dt
  /\ attempts' = cleanup(attempts, now', windowMs)
  /\ ckHist' = [ckHist EXCEPT !.op = "cleanup", !.cleanups = @ + 1,
                                !.before = attempts, !.after = attempts']
  /\ UNCHANGED <<maxAttempts, windowMs, calls, ckShadow>>
  /\ UNCHANGED FrameCK

CKNext ==
  \/ \E key \in Keys, dt \in CallSteps : CkIsAllowed(key, dt)
  \/ \E dt \in SweepSteps : CleanupTick(dt)

\* the attempts of the key that are still in the window at t
ValidAt(map, key, t) == Prune(MapGet(map, key), t, windowMs)

\* C26: cleanup removes exactly the keys whose attempts have all expired and
\* prunes the expired attempts of the others, and at every later time
\* isAllowed, getAttemptCount and getRemainingAttempts answer as they do on a
\* limiter that received the same calls and no cleanup
C26_CleanupTransparent ==
  /\ ckHist.op = "cleanup" =>
       /\ DOMAIN attempts =
            {key \in DOMAIN ckHist.before : ValidAt(ckHist.before, key, now) # << >>}
       /\ \A key \in DOMAIN attempts :
            attempts[key] = ValidAt(ckHist.before, key, now)
  /\ \A key \in Keys, dt \in ClockSteps :
       /\ Answer(isAllowed(attempts, key, now + dt, maxAttempts, windowMs))
            = Answer(isAllowed(ckShadow, key, now + dt, maxAttempts, windowMs))
       /\ getAttemptCount(attempts, key, now + dt, windowMs)
            = getAttemptCount(ckShadow, key, now + dt, windowMs)
       /\ getRemainingAttempts(attempts, key, now + dt, maxAttempts, windowMs)
            = getRemainingAttempts(ckShadow, key, now + dt, maxAttempts, windowMs)

\* a cleanup has removed one key and pruned the list of the other, and the
\* limiter has then refused a call
C26_Witness ==
  /\ ckHist.cleanups > 0
  /\ DOMAIN ckHist.after # DOMAIN ckHist.before
  /\ \E key \in DOMAIN ckHist.after : ckHist.after[key] # ckHist.before[key]
  /\ ckHist.refused

(***************************************************************************)
(* ErrorHandler: handleError, logError, reportError and the wrapped fetch  *)
(***************************************************************************)

MaxEhOps == 5
EhSteps == {2500, 5000}

\* deduplicateWindow: 5000
deduplicateWindow == 5000

\* the maxErrors option of the pages modelled
MaxErrorsOptions == {2}

\* the errors the page raises: a script error and a manual log entry
PageErrors ==
  {[type |-> "JavaScript Error", message |-> "boom"],
   [type |-> "Manual Log", message |-> "note"]}

\* the error the wrapped fetch hands to handleError when the response is not ok
NetworkError == [type |-> "Network Error", message |-> "HTTP 500: Internal Server Error"]

\* the error the wrapped fetch hands to handleError when the request throws
FetchError == [type |-> "Fetch Error", message |-> "Failed to fetch"]

\* `${error.type}:${error.message}`
errorKey(error) == error.type \o ":" \o error.message

\* the state a call of handleError works on
EhState ==
  [log |-> errorLog, recent |-> recentErrors, toasts |-> toasts,
   fetches |-> fetches]

\* faulty variant: the log is cut before the new entry is pushed
logErrorCutFirst(log, entry, maxErrors) ==
  Append(IF Len(log) > maxErrors THEN Tail(log) ELSE log, entry)

\* logError: push, then shift when the log is longer than maxErrors
logError(log, entry, maxErrors) ==
  IF Len(log) + 1 > maxErrors THEN Tail(Append(log, entry)) ELSE Append(log, entry)

\* lastOccurrence && Date.now() - lastOccurrence < deduplicateWindow
IsDuplicate(recent, key, t) ==
  /\ key \in DOMAIN recent
  /\ recent[key] # 0
  /\ t - recent[key] < deduplicateWindow

\* reportError: nothing on localhost, else a POST through window.fetch, which
\* is the wrapped fetch; chain counts the reports that led to this one
reportError(fs, options, chain) ==
  IF options.localhost THEN fs
  ELSE Append(fs, [report |-> TRUE, chain |-> chain + 1])

\* handleError(error) at time t, for an error that chain failed reports led to
handleError(S, options, error, t, chain) ==
  IF options.deduplicateErrors /\ IsDuplicate(S.recent, errorKey(error), t)
    THEN S
    ELSE [log |-> logError(S.log, [key |-> errorKey(error), time |-> t],
                           options.maxErrors),
          recent |-> IF options.deduplicateErrors
                       THEN MapSet(S.recent, errorKey(error), t)
                       ELSE S.recent,
          toasts |-> IF options.showUserNotification THEN S.toasts + 1 ELSE S.toasts,
          fetches |-> IF options.reportToServer
                        THEN reportError(S.fetches, options, chain)
                        ELSE S.fetches]

\* new ErrorHandler(options)
EHInit ==
  /\ ehOptions \in [deduplicateErrors : BOOLEAN, reportToServer : BOOLEAN,
                    showUserNotification : {TRUE}, maxErrors : MaxErrorsOptions,
                    localhost : BOOLEAN]
  /\ ehNow = 10000
  /\ errorLog = << >>
  /\ recentErrors = << >>
  /\ toasts = 0
  /\ fetches = << >>
  /\ ehHist = [ops |-> 0, op |-> "none", handled |-> << >>, epoch |-> 0,
               before |-> [log |-> << >>, recent |-> << >>, toasts |-> 0,
                           fetches |-> << >>],
               skipped |-> FALSE, reentered |-> 0]

\* initErrorHandler on a page that raises nothing
EHIdle ==
  /\ EHInit
  /\ ehOptions = [deduplicateErrors |-> TRUE, reportToServer |-> FALSE,
                  showUserNotification |-> TRUE, maxErrors |-> 2,
                  localhost |-> FALSE]

\* an operation of the handler starts
EhOp(op) ==
  /\ ehHist.ops < MaxEhOps
  /\ UNCHANGED <<ehOptions, FrameEH>>

\* handleError has run on the state B and left S; chain tells how many failed
\* reports led to the call
Handled(B, S, error, chain) ==
  /\ errorLog' = S.log
  /\ recentErrors' = S.recent
  /\ toasts' = S.toasts
  /\ fetches' = S.fetches
  /\ ehHist' = [ehHist EXCEPT
                  !.ops = @ + 1,
                  !.op = "handleError",
                  !.before = B,
                  !.skipped = ehOptions.deduplicateErrors
                              /\ IsDuplicate(B.recent, errorKey(error), ehNow),
                  !.handled = IF ehOptions.deduplicateErrors
                                 /\ IsDuplicate(B.recent, errorKey(error), ehNow)
                                THEN @
                                ELSE Append(@, [key |-> errorKey(error),
                                                time |-> ehNow,
                                                epoch |-> ehHist.epoch]),
                  !.reentered = IF chain > 0 THEN @ + 1 ELSE @]

\* the 'error' listener of the window, or log(message)
ErrorRaised(error) ==
  /\ EhOp("handleError")
  /\ Handled(EhState, handleError(EhState, ehOptions, error, ehNow, 0), error, 0)
  /\ UNCHANGED ehNow

\* the page calls fetch, which is the wrapped one
PageFetch ==
  /\ EhOp("fetch")
  /\ fetches' = Append(fetches, [report |-> FALSE, chain |-> 0])
  /\ ehHist' = [ehHist EXCEPT !.ops = @ + 1, !.op = "fetch"]
  /\ UNCHANGED <<ehNow, errorLog, recentErrors, toasts>>

\* the sequence without its i-th element
Without(seq, i) == SubSeq(seq, 1, i - 1) \o SubSeq(seq, i + 1, Len(seq))

\* the i-th pending request settles with an ok response: the wrapper returns it
FetchOk(i) ==
  /\ EhOp("settle")
  /\ i \in 1..Len(fetches)
  /\ fetches' = Without(fetches, i)
  /\ ehHist' = [ehHist EXCEPT !.ops = @ + 1, !.op = "settle"]
  /\ UNCHANGED <<ehNow, errorLog, recentErrors, toasts>>

\* the i-th pending request settles with a response that is not ok, or throws:
\* the wrapper calls handleError, and rethrows what was thrown; reportError
\* catches what its fetch throws
FetchFails(i, error) ==
  /\ EhOp("settle")
  /\ i \in 1..Len(fetches)
  /\ LET B == [EhState EXCEPT !.fetches = Without(fetches, i)]
     IN Handled(B, handleError(B, ehOptions, error, ehNow, fetches[i].chain),
                error, fetches[i].chain)
  /\ UNCHANGED ehNow

\* clearErrorLog
ClearErrorLog ==
  /\ EhOp("clear")
  /\ errorLog' = << >>
  /\ recentErrors' = << >>
  /\ ehHist' = [ehHist EXCEPT !.ops = @ + 1, !.op = "clear", !.epoch = @ + 1]
  /\ UNCHANGED <<ehNow, toasts, fetches>>

\* time passes
EhTick(dt) ==
  /\ EhOp("tick")
  /\ ehNow' = ehNow + dt
  /\ ehHist' = [ehHist EXCEPT !.ops = @ + 1, !.op = "tick"]
  /\ UNCHANGED <<errorLog, recentErrors, toasts, fetches>>

EHNext ==
  \/ \E error \in PageErrors : ErrorRaised(error)
  \/ PageFetch
  \/ \E i \in 1..MaxEhOps : FetchOk(i)
  \/ \E i \in 1..MaxEhOps, error \in {NetworkError, FetchError} : FetchFails(i, error)
  \/ ClearErrorLog
  \/ \E dt \in EhSteps : EhTick(dt)

\* C27: a report that fails does not lead to another handleError call,
\* notification or report
C27_NoReportingLoop == ehHist.reentered = 0

\* the errors handled since the last clearErrorLog
HandledSinceClear ==
  SelectSeq(ehHist.handled, LAMBDA h : h.epoch = ehHist.epoch)

\* a skipped duplicate changes no state, and the log holds the last maxErrors
\* errors handled since it was cleared, oldest first
SkipAndLogBound ==
  /\ (ehHist.op = "handleError" /\ ehHist.skipped) => EhState = ehHist.before
  /\ Len(errorLog) <= ehOptions.maxErrors
  /\ errorLog =
       [i \in 1..Len(errorLog) |->
          LET h == HandledSinceClear[Len(HandledSinceClear) - Len(errorLog) + i]
          IN [key |-> h.key, time |-> h.time]]
  /\ Len(errorLog) = Min(Len(HandledSinceClear), ehOptions.maxErrors)

\* C28 as stated: with deduplication on, any two handled occurrences of an
\* error key are at least deduplicateWindow ms apart, a skipped duplicate
\* changes no state, and the log never holds more than maxErrors entries
C28_Deduplicated ==
  /\ ehOptions.deduplicateErrors =>
       \A i, j \in 1..Len(ehHist.handled) :
         (i < j /\ ehHist.handled[i].key = ehHist.handled[j].key) =>
           ehHist.handled[j].time - ehHist.handled[i].time >= deduplicateWindow
  /\ SkipAndLogBound

\* C28: with deduplication on, two handled occurrences of an error key with
\* no clearErrorLog between them are at least deduplicateWindow ms apart, a
\* skipped duplicate changes no state, and the log holds at most maxErrors
\* entries, the oldest dropped first
C28_DeduplicatedUntilCleared ==
  /\ ehOptions.deduplicateErrors =>
       \A i, j \in 1..Len(ehHist.handled) :
         (/\ i < j
          /\ ehHist.handled[i].key = ehHist.handled[j].key
          /\ ehHist.handled[i].epoch = ehHist.handled[j].epoch) =>
           ehHist.handled[j].time - ehHist.handled[i].time >= deduplicateWindow
  /\ SkipAndLogBound

\* a duplicate was skipped after the log had dropped its oldest entry, and the
\* same error had been handled twice before
C28_Witness ==
  /\ ehOptions.deduplicateErrors
  /\ ehHist.op = "handleError" /\ ehHist.skipped
  /\ Len(HandledSinceClear) > ehOptions.maxErrors
  /\ \E i, j \in 1..Len(ehHist.handled) :
       i < j /\ ehHist.handled[i].key = ehHist.handled[j].key

(***************************************************************************)
(* this.validators: each validator as a function of its arguments          *)
(***************************************************************************)

\* the values and parameters the validators are called with
ValidatorValues ==
  {<< >>, <<" ">>, <<"a">>, <<"a", "@", "b", ".", "c">>,
   <<"7", "5", "7", "0", "1">>}

FiveDigits == <<"\\", "d", "{", "5", "}">>
OpenClass == <<"[">>
PasswordName == <<"p", "w">>
QuotedName == <<"o", "'", "k">>

\* the parameters each validator is called with
ValidatorParams(name) ==
  CASE name \in {"minLength", "maxLength"} -> {Undefined, <<"3">>}
    [] name = "pattern" -> {FiveDigits, OpenClass}
    [] name = "match" -> {PasswordName, QuotedName}
    [] OTHER -> {Undefined}

\* the fields of the form by name, with their values
FormStates ==
  {<< >>} \cup {[n \in {PasswordName} |-> v] : v \in {<<"a">>, <<"b">>}}

\* what a call gives: a {valid, message} object, or an exception
Result(valid, message) == [thrown |-> FALSE, valid |-> valid, message |-> message]
Thrown == [thrown |-> TRUE, valid |-> FALSE, message |-> << >>]

\* new RegExp(pattern) throws a SyntaxError for a character class that is
\* not closed
UnterminatedClass(pattern) ==
  \E i \in 1..Len(pattern) :
    /\ pattern[i] = "["
    /\ \A j \in (i + 1)..Len(pattern) : pattern[j] # "]"

\* validators.pattern: new RegExp(pattern).test(value)
patternResult(value, pattern) ==
  IF UnterminatedClass(pattern) THEN Thrown
  ELSE Result(PatternTest(value), PatternMessage)

\* querySelector(`[name='${fieldName}']`) throws a SyntaxError when the
\* quote in the name ends the string of the selector early
SelectorInvalid(fieldName) == \E i \in 1..Len(fieldName) : fieldName[i] = "'"

\* validators.match: the value is compared with the value the named field of
\* this.form holds; without such a field valid is null, which is falsy
matchResult(fields, value, fieldName) ==
  IF SelectorInvalid(fieldName) THEN Thrown
  ELSE Result(fieldName \in DOMAIN fields /\ value = fields[fieldName],
                 <<"Must match ">> \o fieldName)

\* the validators modelled
BuiltInValidators == ValidatorNames \cup {"pattern", "match"}

\* this.validators[name](value, param) of the validator of a form with the
\* given fields
CallResult(fields, name, value, param) ==
  CASE name = "pattern" -> patternResult(value, param)
    [] name = "match" -> matchResult(fields, value, param)
    [] OTHER -> Result(RunValidator(name, value, param).valid,
                          RunValidator(name, value, param).message)

\* no validator has been called
VLInit ==
  vlHist = [name |-> "none", value |-> << >>, param |-> Undefined,
            fields |-> << >>, others |-> << >>,
            result |-> Thrown, other |-> Thrown]

\* validators[name](value, param) is called on the validator of a form with
\* the given fields, and on one whose form holds other values
ValidatorCall(name, value, param, fields, others) ==
  /\ vlHist' = [name |-> name, value |-> value, param |-> param,
                fields |-> fields, others |-> others,
                result |-> CallResult(fields, name, value, param),
                other |-> CallResult(others, name, value, param)]
  /\ UNCHANGED FrameVL

VLNext ==
  \E name \in BuiltInValidators, value \in ValidatorValues,
     fields \in FormStates, others \in FormStates :
    \E param \in ValidatorParams(name) :
      ValidatorCall(name, value, param, fields, others)

\* C29: every validator returns a {valid, message} object for every value and
\* parameter without throwing, and what it returns depends on its arguments
\* only, not on the state of the form
C29_PureTotal ==
  vlHist.name # "none" =>
    /\ ~vlHist.result.thrown
    /\ ~vlHist.other.thrown
    /\ vlHist.result = vlHist.other

(***************************************************************************)
(* FormValidator: a rejected submit and the way back                        *)
(***************************************************************************)

MaxRetryOps == 5
RetrySteps == {1000, 59000}

\* a form whose only field accepts anything, and one whose field is required
FreeField ==
  [id |-> "field", required |-> FALSE, validate |-> << >>, minLength |-> -1,
   maxLength |-> -1, pattern |-> FALSE, title |-> << >>, initial |-> << >>]

RetryForms == {<<FreeField>>, <<[FreeField EXCEPT !.required = TRUE]>>}

\* a submit or a wait of the user
RetryEvent == fvOps < MaxRetryOps /\ fvOps' = fvOps + 1 /\ UNCHANGED FrameFV

\* a 'submit' event: from the submit control, which gives one only while it
\* is enabled, or from form.requestSubmit(); handleSubmit runs
RetrySubmit(viaControl) ==
  /\ form # << >>
  /\ viaControl => ~submitButton.disabled
  /\ SubmitEventFires(form, formUI, fieldValues)
  /\ RetryEvent
  /\ Submitted(isAllowed(attempts, UserKey, now, maxAttempts, windowMs),
               validateForm(Bundle, form, fieldValues, focused))
  /\ UNCHANGED <<form, fieldValues, debounceTimers, now, maxAttempts, windowMs, calls>>

\* the user waits dt ms; no pending callback becomes overdue
Wait(dt) ==
  /\ RetryEvent
  /\ \A t \in fvTimers : t.remaining >= dt
  /\ fvTimers' = {[t EXCEPT !.remaining = @ - dt] : t \in fvTimers}
  /\ now' = now + dt
  /\ fvHist' = [fvHist EXCEPT !.last = "tick"]
  /\ UNCHANGED <<form, fieldValues, fieldStates, fieldUI, debounceTimers, submitButton,
                 formUI, inFlight, callbacks, focused, maxAttempts, windowMs, attempts, calls>>

RetryNext ==
  \/ \E viaControl \in BOOLEAN : RetrySubmit(viaControl)
  \/ \E dt \in RetrySteps : Wait(dt)
  \/ \E outcome \in {"resolve", "reject"} : Settle(outcome)
  \/ \E t \in fvTimers : FVTimerFire(t)
  \/ \E dt \in FVTimeSteps : FVAdvance(dt)

\* C30: when showRateLimitError has run the submit control is disabled and
\* the form shows the message with the seconds to wait, and once the control
\* is enabled again after the rejection the limiter allows a new attempt of
\* the same identifier
C30_RejectionRecoverable ==
  /\ (fvHist.last = "submit" /\ fvHist.sub.rejected) =>
       /\ submitButton.disabled
       /\ formUI.globalDisplay = "block"
       /\ \E seconds \in 1..(windowMs \div 1000) :
            formUI.globalError = RateLimitMessage(seconds)
  /\ (fvHist.sub.rejected /\ ~submitButton.disabled) =>
       isAllowed(attempts, UserKey, now, maxAttempts, windowMs).allowed

(***************************************************************************)
(* new FormValidator(form, options): the rate limiter of the constructor   *)
(***************************************************************************)

MaxConfigCalls == 5
ConfigSteps == {0, 1000, 60000}

\* the rateLimitConfig objects a page passes; Null is the default of the option
RateLimitConfigs ==
  {Null, [maxAttempts |-> 2, windowMs |-> 2000], [maxAttempts |-> 5, windowMs |-> 60000]}

\* the options a page constructs the validator with
ValidatorOptions ==
  [enableRateLimit : BOOLEAN, rateLimitConfig : RateLimitConfigs]

\* what new RateLimiter(maxAttempts, windowMs) gives
NewRateLimiter(max, w) ==
  [maxAttempts |-> max, windowMs |-> w, attempts |-> << >>]

\* createFormRateLimiter()
createFormRateLimiter == NewRateLimiter(FormMaxAttempts, FormWindowMs)

\* this.rateLimitConfig: the constructor stores the options in this.options
\* and assigns no property of that name, so the read gives undefined
ThisRateLimitConfig == Undefined

\* the rate limiter part of the constructor: state is "constructed" or
\* "thrown" (the TypeError of reading a property of undefined)
Constructed(options) ==
  IF ~options.enableRateLimit
    THEN [state |-> "constructed", options |-> options, hasLimiter |-> FALSE,
          limiter |-> NewRateLimiter(0, 0)]
  ELSE IF options.rateLimitConfig # Null
    THEN IF ThisRateLimitConfig = Undefined
           THEN [state |-> "thrown", options |-> options, hasLimiter |-> FALSE,
                 limiter |-> NewRateLimiter(0, 0)]
           ELSE [state |-> "constructed", options |-> options, hasLimiter |-> TRUE,
                 limiter |-> NewRateLimiter(ThisRateLimitConfig.maxAttempts,
                                            ThisRateLimitConfig.windowMs)]
    ELSE [state |-> "constructed", options |-> options, hasLimiter |-> TRUE,
          limiter |-> createFormRateLimiter]

\* the page before the validator is constructed
CFInit ==
  cfValidator = [state |-> "none",
                 options |-> [enableRateLimit |-> TRUE, rateLimitConfig |-> Null],
                 hasLimiter |-> FALSE, limiter |-> NewRateLimiter(0, 0),
                 now |-> 0, allowed |-> << >>, refused |-> 0]

\* new FormValidator(form, options)
Construct(options) ==
  /\ cfValidator.state = "none"
  /\ cfValidator' = [c \in {"now", "allowed", "refused"} |-> cfValidator[c]]
                    @@ Constructed(options)
  /\ UNCHANGED FrameCF

\* handleSubmit, dt ms after the last one: the rate limit check
ConfiguredSubmit(dt) ==
  /\ cfValidator.state = "constructed"
  /\ Len(cfValidator.allowed) + cfValidator.refused < MaxConfigCalls
  /\ LET t == cfValidator.now + dt
         r == isAllowed(cfValidator.limiter.attempts, UserKey, t,
                        cfValidator.limiter.maxAttempts, cfValidator.limiter.windowMs)
     IN cfValidator' =
          IF cfValidator.hasLimiter
            THEN [cfValidator EXCEPT
                    !.now = t,
                    !.limiter.attempts = r.map,
                    !.allowed = IF r.allowed THEN Append(@, t) ELSE @,
                    !.refused = IF r.allowed THEN @ ELSE @ + 1]
            ELSE [cfValidator EXCEPT !.now = t, !.allowed = Append(@, t)]
  /\ UNCHANGED FrameCF

CFNext ==
  \/ \E options \in ValidatorOptions : Construct(options)
  \/ \E dt \in ConfigSteps : ConfiguredSubmit(dt)

\* C31: a FormValidator constructed with options.rateLimitConfig is
\* constructed without an error, and its limiter has the maxAttempts and the
\* windowMs of the option
C31_ConfigurableLimit ==
  (cfValidator.state # "none" /\ cfValidator.options.enableRateLimit
     /\ cfValidator.options.rateLimitConfig # Null) =>
    /\ cfValidator.state = "constructed"
    /\ cfValidator.limiter.maxAttempts = cfValidator.options.rateLimitConfig.maxAttempts
    /\ cfValidator.limiter.windowMs = cfValidator.options.rateLimitConfig.windowMs

(***************************************************************************)
(* AriaLiveRegions (deploy/js/utils/ariaLiveRegions.js)                    *)
(*                                                                         *)
(* A processQueue call that awaits a delay is a record of arLoops: where   *)
(* it is suspended, the announcement it holds, the time left on its timer  *)
(* and the rank of the timer among those registered.                       *)
(***************************************************************************)
MaxArOps == 5

\* options.maxQueueSize of the instance of the page
maxQueueSize == 2

\* the delays of deliverAnnouncement and of processQueue
deliverDelay == 50
gapDelay == 200

\* the time between two calls of the page
ArSteps == {0, 50, 200}

Priorities == {"polite", "assertive"}

\* the state the methods work on
AriaState ==
  [queue |-> announcementQueue, isProcessing |-> isProcessing, loops |-> arLoops,
   regions |-> arRegions, delivered |-> arDelivered, timerCount |-> arTimerCount]

\* this.delay(ms) awaited by a processQueue call
Suspend(S, pc, announcement, ms) ==
  [S EXCEPT !.loops = @ \cup {[pc |-> pc, announcement |-> announcement,
                                remaining |-> ms, rank |-> S.timerCount + 1]},
            !.timerCount = @ + 1]

\* the while loop of processQueue from its test: shift and start to deliver
\* (the region is cleared, then the call awaits 50 ms), or leave the loop
processQueueLoop(S) ==
  IF Len(S.queue) > 0
    THEN LET announcement == Head(S.queue)
             cleared == [S EXCEPT !.queue = Tail(@),
                                  !.regions[announcement.priority] = 0]
         IN Suspend(cleared, "deliver", announcement, deliverDelay)
    ELSE [S EXCEPT !.isProcessing = FALSE]

\* processQueue() up to its first await
processQueue(S) ==
  IF S.isProcessing \/ Len(S.queue) = 0 THEN S
  ELSE processQueueLoop([S EXCEPT !.isProcessing = TRUE])

\* announce(message, priority, {queue})
announce(S, announcement, queue) ==
  LET room == IF queue /\ Len(S.queue) >= maxQueueSize THEN Tail(S.queue) ELSE S.queue
      pushed == [S EXCEPT !.queue = Append(room, announcement)]
  IN IF ~pushed.isProcessing THEN processQueue(pushed) ELSE pushed

\* clearQueue()
clearQueue(S) == [S EXCEPT !.queue = << >>, !.isProcessing = FALSE]

\* the continuation of a processQueue call whose delay has passed
Resume(S, loop) ==
  LET rest == [S EXCEPT !.loops = @ \ {loop}]
  IN IF loop.pc = "deliver"
       THEN LET set == [rest EXCEPT
                          !.regions[loop.announcement.priority] = loop.announcement.id,
                          !.delivered = Append(@, loop.announcement.id)]
            IN IF Len(set.queue) > 0
                 THEN Suspend(set, "gap", loop.announcement, gapDelay)
                 ELSE processQueueLoop(set)
       ELSE processQueueLoop(rest)

\* time passes: every pending timer is dt closer
Elapse(S, dt) ==
  [S EXCEPT !.loops = {[l EXCEPT !.remaining = @ - dt] : l \in @}]

\* new AriaLiveRegions(options): empty queue, two empty regions
ARInit ==
  /\ announcementQueue = << >>
  /\ isProcessing = FALSE
  /\ arLoops = {}
  /\ arRegions = [p \in Priorities |-> 0]
  /\ arDelivered = << >>
  /\ arTimerCount = 0
  /\ arOps = 0

ArDone(S) ==
  /\ announcementQueue' = S.queue
  /\ isProcessing' = S.isProcessing
  /\ arLoops' = S.loops
  /\ arRegions' = S.regions
  /\ arDelivered' = S.delivered
  /\ arTimerCount' = S.timerCount
  /\ UNCHANGED FrameAR

\* a call of the page dt ms after the last step, before any timer is due
ArEvent(dt) ==
  /\ arOps < MaxArOps
  /\ arOps' = arOps + 1
  /\ \A l \in arLoops : dt <= l.remaining

\* announce(), the arOps-th call of the page
Announce(priority, queue, dt) ==
  /\ ArEvent(dt)
  /\ ArDone(announce(Elapse(AriaState, dt),
                     [id |-> arOps + 1, priority |-> priority], queue))

\* clearQueue()
ClearQueue(dt) ==
  /\ ArEvent(dt)
  /\ ArDone(clearQueue(Elapse(AriaState, dt)))

\* the timer that is due first fires
DelayOver ==
  \E loop \in arLoops :
    /\ \A l \in arLoops :
         \/ loop.remaining < l.remaining
         \/ loop.remaining = l.remaining /\ loop.rank <= l.rank
    /\ UNCHANGED arOps
    /\ LET S == Elapse(AriaState, loop.remaining)
       IN ArDone(Resume(S, [loop EXCEPT !.remaining = 0]))

ARNext ==
  \/ \E priority \in Priorities, queue \in BOOLEAN, dt \in ArSteps :
       Announce(priority, queue, dt)
  \/ \E dt \in ArSteps : ClearQueue(dt)
  \/ DelayOver

\* C34: at any moment at most one processQueue call is delivering, the queue
\* holds at most maxQueueSize announcements, and once the queue is empty and
\* no call is delivering isProcessing is false.
C34_OneLoop ==
  /\ Cardinality(arLoops) <= 1
  /\ Len(announcementQueue) <= maxQueueSize
  /\ (announcementQueue = << >> /\ arLoops = {}) => ~isProcessing

(***************************************************************************)
(* auth (_site/js/auth.js) and initAuthLinks (auth-handler.js)             *)
(*                                                                         *)
(* A token is a number: 0 is null (no token), 1 is the token a former      *)
(* visit left in localStorage, 1 + k is the token of the k-th successful   *)
(* login or registration. A user is 0 (null) or the number of the token    *)
(* the server answered for.                                                *)
(***************************************************************************)
MaxAuOps == 4

NoToken == 0
StoredTokens == {NoToken, 1}

\* the content of the auth-links container
NoLinks == "none"
ProfileLogout == "Profile, Logout"
LoginRegister == "Login, Register"

\* the state the methods of auth work on
AuthState ==
  [auth |-> auth, localStorage |-> localStorage, requests |-> auRequests,
   issued |-> auIssued]

\* logout()
logout(S) ==
  [S EXCEPT !.auth = [isAuthenticated |-> FALSE, user |-> 0, token |-> NoToken],
            !.localStorage = NoToken]

\* setAuth(token, user)
setAuth(S, token, user) ==
  [S EXCEPT !.auth = [isAuthenticated |-> TRUE, user |-> user, token |-> token],
            !.localStorage = token]

\* fetch(...): a request in flight; it remembers how many tokens the server
\* had issued when it was sent
Fetch(S, kind) ==
  [S EXCEPT !.requests = @ \cup {[kind |-> kind, token |-> S.auth.token,
                                  issued |-> S.issued]}]

\* loadUser() up to its await
loadUser(S) ==
  IF S.auth.token = NoToken THEN logout(S) ELSE Fetch(S, "loadUser")

\* init()
authInit(S) ==
  LET read == [S EXCEPT !.auth.token = S.localStorage]
  IN IF read.auth.token # NoToken
       THEN loadUser([read EXCEPT !.auth.isAuthenticated = TRUE])
       ELSE read

\* login(email, password) and register(name, email, password) up to the await
login(S, kind) == Fetch(S, kind)

\* the rest of loadUser once the response or the network error is there
loadUserDone(S, ok, request) ==
  IF ok THEN [S EXCEPT !.auth.user = request.token, !.auth.isAuthenticated = TRUE]
  ELSE logout(S)

\* the rest of login or register: the server issues a new token when it accepts
loginDone(S, ok) ==
  IF ok THEN setAuth([S EXCEPT !.issued = @ + 1], S.issued + 2, S.issued + 2)
  ELSE S

\* auth.isAuthenticated(): isAuthenticated is a boolean property, so the call
\* throws a TypeError
IsAuthenticatedCall == "TypeError"

\* initAuthLinks(), container present: the content of the container after it
initAuthLinks(a, links) ==
  IF a.isAuthenticated
    THEN IF IsAuthenticatedCall = "TypeError"
           THEN links
           ELSE ProfileLogout
    ELSE LoginRegister

\* the module is loaded: nobody is authenticated, the container is empty
AUInit ==
  /\ auth = [isAuthenticated |-> FALSE, user |-> 0, token |-> NoToken]
  /\ localStorage \in StoredTokens
  /\ auRequests = {}
  /\ authLinks = NoLinks
  /\ auIssued = 0
  /\ auOps = 0
  /\ auHist = [op |-> "none", overtaken |-> FALSE]

\* the page before any script ran, as the other components see it
AUIdle == AUInit /\ localStorage = NoToken

AuDone(S, op, overtaken) ==
  /\ auth' = S.auth
  /\ localStorage' = S.localStorage
  /\ auRequests' = S.requests
  /\ auIssued' = S.issued
  /\ auHist' = [op |-> op, overtaken |-> overtaken]
  /\ UNCHANGED FrameAU

AuEvent == auOps < MaxAuOps /\ auOps' = auOps + 1

\* auth.init()
AuthInit ==
  /\ AuEvent
  /\ AuDone(authInit(AuthState), "init", FALSE)
  /\ UNCHANGED authLinks

\* auth.login(...) or auth.register(...)
Login(kind) ==
  /\ AuEvent
  /\ AuDone(login(AuthState, kind), kind, FALSE)
  /\ UNCHANGED authLinks

\* auth.logout()
Logout ==
  /\ AuEvent
  /\ AuDone(logout(AuthState), "logout", FALSE)
  /\ UNCHANGED authLinks

\* the response to a request arrives (ok), or it fails (not ok or a network
\* error); a login accepted since the request was sent has overtaken it
Response(request, ok) ==
  /\ request \in auRequests
  /\ UNCHANGED auOps
  /\ LET S == [AuthState EXCEPT !.requests = @ \ {request}]
     IN IF request.kind = "loadUser"
          THEN AuDone(loadUserDone(S, ok, request),
                      IF ok THEN "loadUserOk" ELSE "loadUserFailed",
                      request.issued < auIssued)
          ELSE AuDone(loginDone(S, ok),
                      IF ok THEN "loginOk" ELSE "loginFailed", FALSE)
  /\ UNCHANGED authLinks

\* initAuthLinks()
InitAuthLinks ==
  /\ AuEvent
  /\ authLinks' = initAuthLinks(auth, authLinks)
  /\ auHist' = [op |-> "initAuthLinks", overtaken |-> FALSE]
  /\ UNCHANGED <<auth, localStorage, auRequests, auIssued>>
  /\ UNCHANGED FrameAU

AUNext ==
  \/ AuthInit
  \/ \E kind \in {"login", "register"} : Login(kind)
  \/ Logout
  \/ \E request \in auRequests, ok \in BOOLEAN : Response(request, ok)
  \/ InitAuthLinks

\* C35: when a loadUser request fails after a login or registration that
\* was accepted since the request was sent, the user stays logged in with
\* the token in place; and in every state isAuthenticated implies that a
\* token is held and that localStorage holds the same token.
C35_LoginNotUndone ==
  /\ (auHist.op = "loadUserFailed" /\ auHist.overtaken) =>
       auth.isAuthenticated /\ localStorage # NoToken
  /\ auth.isAuthenticated =>
       auth.token # NoToken /\ localStorage = auth.token

\* C36: after initAuthLinks the container holds Profile and Logout when
\* auth is authenticated and Login and Register otherwise, never nothing.
C36_LinksRendered ==
  auHist.op = "initAuthLinks" =>
    authLinks = IF auth.isAuthenticated THEN ProfileLogout ELSE LoginRegister

(***************************************************************************)
(* ButtonUtils (button-utils) and FormValidator on the same form           *)
(*                                                                         *)
(* buForm holds what the two 'submit' listeners read and write: whether    *)
(* the fields are in order, the submit control, the submissions pending,   *)
(* the attempts of the limiter, the clock and the rate limit timers.       *)
(***************************************************************************)
MaxBuOps == 5
MaxBuWaits == 2
BuSteps == {1000, 59000}

\* ButtonUtils.setLoading(button, loadingText)
setLoading(button, loadingText) ==
  [button EXCEPT !.loading = TRUE,
                 !.disabled = TRUE,
                 !.originalText = IF @ = "" THEN button.text ELSE @,
                 !.text = loadingText]

\* the document 'submit' listener of setupLoadingStates; the control has no
\* no-loading class
setupLoadingStates(B) ==
  [B EXCEPT !.button = setLoading(@, "Submitting...")]

\* FormValidator.handleSubmit up to its await, at clock value B.now;
\* validateForm() gives B.valid, whether the fields are in order
buHandleSubmit(B) ==
  LET r == isAllowed(B.attempts, UserKey, B.now, FormMaxAttempts, FormWindowMs)
      counted == [B EXCEPT !.attempts = r.map]
  IN IF ~r.allowed
       THEN [counted EXCEPT !.button.disabled = TRUE,
                            !.timers = @ \cup {r.retryAfter * 1000},
                            !.failed = TRUE]
     ELSE IF ~B.valid
       THEN [counted EXCEPT !.failed = TRUE]
     ELSE [counted EXCEPT !.button = setLoadingOn(@),
                          !.inFlight = @ + 1]

\* the page once both scripts have run
BUInit ==
  buForm = [valid |-> FALSE,
            button |-> [disabled |-> FALSE, text |-> SubmitLabel, originalText |-> "",
                        loading |-> FALSE],
            inFlight |-> 0, attempts |-> << >>, now |-> 0, timers |-> {},
            failed |-> FALSE, ops |-> 0, waits |-> 0]

BuEvent(B) == B.ops < MaxBuOps /\ buForm' = [B EXCEPT !.ops = @ + 1] /\ UNCHANGED FrameBU

\* a 'submit' event: the listener of the form, then the one of the document
BuSubmit(viaControl) ==
  /\ viaControl => ~buForm.button.disabled
  /\ BuEvent(setupLoadingStates(buHandleSubmit(buForm)))

\* the user corrects the fields, or spoils them
BuEdit(valid) ==
  /\ valid # buForm.valid
  /\ BuEvent([buForm EXCEPT !.valid = valid])

\* the promise of a pending onSubmit settles: the finally block
BuSettle ==
  /\ buForm.inFlight > 0
  /\ buForm' = [buForm EXCEPT !.inFlight = @ - 1, !.button = setLoadingOff(@)]
  /\ UNCHANGED FrameBU

\* dt ms pass; no timer becomes overdue
BuWait(dt) ==
  /\ \A t \in buForm.timers : t >= dt
  /\ buForm.waits < MaxBuWaits
  /\ buForm' = [buForm EXCEPT !.now = @ + dt, !.timers = {t - dt : t \in @},
                              !.waits = @ + 1]
  /\ UNCHANGED FrameBU

\* the timer of showRateLimitError fires
BuRelease ==
  /\ 0 \in buForm.timers
  /\ buForm' = [buForm EXCEPT !.timers = @ \ {0}, !.button.disabled = FALSE]
  /\ UNCHANGED FrameBU

BUNext ==
  \/ \E viaControl \in BOOLEAN : BuSubmit(viaControl)
  \/ \E valid \in BOOLEAN : BuEdit(valid)
  \/ BuSettle
  \/ \E dt \in BuSteps : BuWait(dt)
  \/ BuRelease

\* C37: after a submit event that failed validation or was rate limited,
\* once no rate limit timer is pending and no submission is in flight, the
\* submit control is enabled and shows its original label.
C37_ControlRecovers ==
  (buForm.failed /\ buForm.inFlight = 0 /\ buForm.timers = {}) =>
    ~buForm.button.disabled /\ buForm.button.text = SubmitLabel

(***************************************************************************)
(* The properties page: embedded data -> propertiesData ->                  *)
(* formattedProperties -> new PropertyFilter (MIGRATION_READY.md)          *)
(*                                                                         *)
(* A JavaScript object is a function on the names of its properties: a    *)
(* property the object does not have is outside its DOMAIN.                *)
(***************************************************************************)
MaxPgOps == 2

\* the entries of the #properties-data payload
Cedar ==
  [id |-> "cedar", title |-> "Cedar", bedrooms |-> 3, bathrooms |-> 2,
   price |-> [formatted |-> "$900", amount |-> 900], type |-> "Townhome",
   tags |-> <<"Section 8 Ready">>, location |-> "Tyler, TX"]

Birch ==
  [id |-> "birch", title |-> "Birch", bedrooms |-> 2, bathrooms |-> 1,
   price |-> [formatted |-> "$800", amount |-> 800], type |-> "Studio",
   tags |-> <<"Family Friendly">>, location |-> "Tyler, TX"]

\* an entry without a price
Maple ==
  [id |-> "maple", title |-> "Maple", bedrooms |-> 4, bathrooms |-> 3,
   price |-> Null, type |-> "Townhome",
   tags |-> <<"HUD-VASH Approved">>, location |-> "Kilgore, TX"]

Payloads ==
  {list \in UNION {[1..n -> {Cedar, Birch, Maple}] : n \in 0..3} :
     \A i, j \in 1..Len(list) : i # j => list[i] # list[j]}

PageTypes == {"", "Townhome", "Studio"}
PagePrices == {Null, Some(850), Some(1000)}

\* the payload mapped "to the format expected by existing code"
propertiesData(data) ==
  [i \in 1..Len(data) |->
     [id |-> data[i].id,
      name |-> data[i].title,
      bedrooms |-> data[i].bedrooms,
      bathrooms |-> data[i].bathrooms,
      price |-> IF data[i].price # Null THEN data[i].price.formatted ELSE "N/A",
      price_amount |-> IF data[i].price # Null THEN data[i].price.amount ELSE 0,
      type |-> data[i].type,
      tags |-> data[i].tags,
      location |-> data[i].location]]

\* the tag labels of the transformation
TagLabel(tag) ==
  CASE tag = "Section 8 Ready" -> "Section 8"
    [] tag = "HUD-VASH Approved" -> "HUD-VASH"
    [] tag = "Family Friendly" -> "Pet Friendly"
    [] OTHER -> tag

\* "Transform data for PropertyFilter": id is `property-${index}`, here the
\* position in the list
formattedProperties(props) ==
  [i \in 1..Len(props) |->
     [id |-> i, name |-> props[i].name, address |-> props[i].location,
      bedrooms |-> props[i].bedrooms, bathrooms |-> props[i].bathrooms,
      tags |-> [k \in 1..Len(props[i].tags) |-> TagLabel(props[i].tags[k])],
      featured |-> i = 1]]

\* the type and price tests of applyFilters on an object that may lack the
\* property: undefined !== type is true, undefined < n and undefined > n
\* are false
PageTypeTest(prop, f) ==
  ~(f.propertyType # ""
      /\ ("type" \notin DOMAIN prop \/ prop.type # f.propertyType))

PagePriceTest(prop, f) ==
  /\ ~(f.minPrice # Null /\ "price_amount" \in DOMAIN prop
         /\ prop.price_amount < f.minPrice[1])
  /\ ~(f.maxPrice # Null /\ "price_amount" \in DOMAIN prop
         /\ prop.price_amount > f.maxPrice[1])

\* applyFilters with every other criterion at its default
PageFilter(all, f) ==
  SelectSeq(all, LAMBDA prop : PageTypeTest(prop, f) /\ PagePriceTest(prop, f))

NoPropertyFilter ==
  [constructed |-> FALSE, allProperties |-> << >>, filteredProperties |-> << >>,
   filters |-> DefaultFilters]

\* the page with its embedded data, before DOMContentLoaded
PGInit ==
  /\ pgData \in Payloads
  /\ pgFilter = NoPropertyFilter
  /\ pgOps = 0

PGIdle == PGInit /\ pgData = << >>

\* the DOMContentLoaded listener: the grid is there; the filter is
\* constructed when propertiesData is not empty
PageLoad ==
  /\ pgOps = 0
  /\ pgOps' = 1
  /\ LET all == formattedProperties(propertiesData(pgData))
     IN pgFilter' = IF Len(propertiesData(pgData)) > 0
                      THEN [constructed |-> TRUE, allProperties |-> all,
                            filteredProperties |-> all, filters |-> DefaultFilters]
                      ELSE pgFilter
  /\ UNCHANGED pgData
  /\ UNCHANGED FramePG

\* the visitor chooses a type and a price range: setFilters, applyFilters
PageSetFilters(propertyType, minPrice, maxPrice) ==
  /\ pgFilter.constructed
  /\ pgOps < MaxPgOps
  /\ pgOps' = pgOps + 1
  /\ LET f == [pgFilter.filters EXCEPT !.propertyType = propertyType,
                                       !.minPrice = minPrice, !.maxPrice = maxPrice]
     IN pgFilter' = [pgFilter EXCEPT !.filters = f,
                                     !.filteredProperties =
                                        PageFilter(pgFilter.allProperties, f)]
  /\ UNCHANGED pgData
  /\ UNCHANGED FramePG

PGNext ==
  \/ PageLoad
  \/ \E propertyType \in PageTypes, minPrice, maxPrice \in PagePrices :
       PageSetFilters(propertyType, minPrice, maxPrice)

\* the entries of the payload a type and price range selects, by position
Selected(data, f) ==
  {i \in 1..Len(data) :
     /\ f.propertyType # "" => data[i].type = f.propertyType
     /\ f.minPrice # Null => propertiesData(data)[i].price_amount >= f.minPrice[1]
     /\ f.maxPrice # Null => propertiesData(data)[i].price_amount <= f.maxPrice[1]}

\* C38: the filter of the page holds, for every entry of the embedded data,
\* a property with its price_amount and type, and a type or price filter
\* keeps exactly the properties whose embedded type and price match.
C38_PageFiltersByEmbeddedData ==
  pgFilter.constructed =>
    /\ \A i \in 1..Len(pgFilter.allProperties) :
         /\ "price_amount" \in DOMAIN pgFilter.allProperties[i]
         /\ "type" \in DOMAIN pgFilter.allProperties[i]
    /\ {pgFilter.filteredProperties[k].id : k \in 1..Len(pgFilter.filteredProperties)}
         = Selected(pgData, pgFilter.filters)

(***************************************************************************)
(* ImprovedCSRFProtection (improved-csrf-protection)                       *)
(*                                                                         *)
(* A token is a number: 0 is no token, 1 is the token of a cookie that a   *)
(* page of the site left behind, 1 + k is the k-th token generated by the  *)
(* instance. Time is counted in minutes.                                   *)
(***************************************************************************)
MaxDcOps == 3
MaxDcClock == 30
DcSteps == {5, 10}

\* expires = now + 30 * 60 * 1000
cookieLifetime == 30
\* setInterval(refreshToken, 15 * 60 * 1000)
refreshInterval == 15

NoCookie == [token |-> 0, remaining |-> 0]

\* the csrf_token cookie the browser holds when the page loads: none, or
\* one set 20 or 5 minutes ago by another page of the site
CookiesAtLoad ==
  {NoCookie, [token |-> 1, remaining |-> 10], [token |-> 1, remaining |-> 25]}

\* the forms of the page: contact posts to the site, apply to Formspree
DcFormIds == {"contact", "apply"}
isFormspreeForm(formId) == formId = "apply"

\* a form as the page's HTML has it: no csrf_token input
PlainForm == [protected |-> FALSE, input |-> 0, tampered |-> FALSE, filled |-> TRUE]

\* the state the methods work on
CsrfState ==
  [cookie |-> dcCookie, instance |-> dcInstance, forms |-> dcForms]

\* getCSRFCookie(): the token of the cookie, 0 for null
getCSRFCookie(S) == S.cookie.token

\* generateSecureToken(): a token nobody has seen before
generateSecureToken(S) == S.instance.generated + 2

\* setCSRFCookie(token)
setCSRFCookie(S, token) ==
  [S EXCEPT !.cookie = [token |-> token, remaining |-> cookieLifetime]]

\* getToken(): this.token || this.getCSRFCookie()
getToken(S) ==
  IF S.instance.token # 0 THEN S.instance.token ELSE getCSRFCookie(S)

\* attachToAllForms(): the hidden input of every form not yet protected
attachToAllForms(S) ==
  [S EXCEPT !.forms = [f \in DOMAIN @ |->
                         IF @[f].protected THEN @[f]
                         ELSE [@[f] EXCEPT !.input = getToken(S), !.protected = TRUE]]]

\* init()
csrfInit(S) ==
  LET fresh == getCSRFCookie(S) = 0
      token == IF fresh THEN generateSecureToken(S) ELSE getCSRFCookie(S)
      set == IF fresh
               THEN [setCSRFCookie(S, token) EXCEPT !.instance.generated = @ + 1]
               ELSE S
  IN attachToAllForms([set EXCEPT !.instance.token = token,
                                  !.instance.constructed = TRUE])

\* refreshToken()
refreshToken(S) ==
  LET newToken == generateSecureToken(S)
      set == [setCSRFCookie(S, newToken) EXCEPT !.instance.token = newToken,
                                                !.instance.generated = @ + 1]
  IN [set EXCEPT !.forms = [f \in DOMAIN @ |->
                              IF @[f].protected /\ @[f].input # 0
                                THEN [@[f] EXCEPT !.input = newToken]
                                ELSE @[f]]]

\* validateFormspreeForm(form): the honeypot is empty and the required
\* fields are filled
validateFormspreeForm(S, formId) == S.forms[formId].filled

\* validateForm(form)
dcValidateForm(S, formId) ==
  LET submittedToken == S.forms[formId].input
      cookieToken == getCSRFCookie(S)
  IN IF submittedToken = 0 \/ cookieToken = 0 \/ submittedToken # cookieToken
       THEN FALSE
     ELSE IF isFormspreeForm(formId) THEN validateFormspreeForm(S, formId)
     ELSE TRUE

\* the page before DOMContentLoaded
DCInit ==
  /\ dcCookie \in CookiesAtLoad
  /\ dcInstance = [constructed |-> FALSE, token |-> 0, generated |-> 0]
  /\ dcForms = [f \in DcFormIds |-> PlainForm]
  /\ dcSinceRefresh = 0
  /\ dcClock = 0
  /\ dcOps = 0
  /\ dcHist = [op |-> "none", form |-> "none", accepted |-> FALSE,
               submittedToken |-> 0, cookieToken |-> 0]

DCIdle == DCInit /\ dcCookie = NoCookie

DcDone(S, op) ==
  /\ dcCookie' = S.cookie
  /\ dcInstance' = S.instance
  /\ dcForms' = S.forms
  /\ dcHist' = [dcHist EXCEPT !.op = op]
  /\ UNCHANGED FrameDC

DcEvent == dcInstance.constructed /\ dcOps < MaxDcOps /\ dcOps' = dcOps + 1

\* DOMContentLoaded: new ImprovedCSRFProtection() and the refresh interval
DcConstruct ==
  /\ ~dcInstance.constructed
  /\ DcDone(csrfInit(CsrfState), "init")
  /\ UNCHANGED <<dcSinceRefresh, dcClock, dcOps>>

\* improvedCSRFProtection.refreshToken() called by the page
DcRefresh ==
  /\ DcEvent
  /\ DcDone(refreshToken(CsrfState), "refresh")
  /\ UNCHANGED <<dcSinceRefresh, dcClock>>

\* the callback of the 15 minute interval
DcInterval ==
  /\ dcInstance.constructed
  /\ dcSinceRefresh = refreshInterval
  /\ dcSinceRefresh' = 0
  /\ DcDone(refreshToken(CsrfState), "refresh")
  /\ UNCHANGED <<dcClock, dcOps>>

\* dt minutes pass, no further than the next interval callback; a cookie
\* whose time is up is dropped by the browser
DcTick(dt) ==
  /\ dcInstance.constructed
  /\ dcClock + dt <= MaxDcClock
  /\ dcSinceRefresh + dt <= refreshInterval
  /\ dcClock' = dcClock + dt
  /\ dcSinceRefresh' = dcSinceRefresh + dt
  /\ dcCookie' = IF dcCookie.token # 0 /\ dcCookie.remaining > dt
                   THEN [dcCookie EXCEPT !.remaining = @ - dt]
                   ELSE NoCookie
  /\ dcHist' = [dcHist EXCEPT !.op = "tick"]
  /\ UNCHANGED <<dcInstance, dcForms, dcOps>>
  /\ UNCHANGED FrameDC

\* someone changes or removes the hidden input of a form
DcTamper(formId, value) ==
  /\ DcEvent
  /\ value # dcForms[formId].input
  /\ DcDone([CsrfState EXCEPT !.forms[formId].input = value,
                              !.forms[formId].tampered = TRUE], "tamper")
  /\ UNCHANGED <<dcSinceRefresh, dcClock>>

\* the visitor empties or fills the required fields of a form
DcFill(formId, filled) ==
  /\ DcEvent
  /\ filled # dcForms[formId].filled
  /\ DcDone([CsrfState EXCEPT !.forms[formId].filled = filled], "fill")
  /\ UNCHANGED <<dcSinceRefresh, dcClock>>

\* the 'submit' listener of a protected form: validateForm(form)
DcSubmit(formId) ==
  /\ DcEvent
  /\ dcForms[formId].protected
  /\ dcHist' = [op |-> "submit", form |-> formId,
                accepted |-> dcValidateForm(CsrfState, formId),
                submittedToken |-> dcForms[formId].input,
                cookieToken |-> getCSRFCookie(CsrfState)]
  /\ UNCHANGED <<dcCookie, dcInstance, dcForms, dcSinceRefresh, dcClock>>
  /\ UNCHANGED FrameDC

DCNext ==
  \/ DcConstruct
  \/ DcRefresh
  \/ DcInterval
  \/ \E dt \in DcSteps : DcTick(dt)
  \/ \E formId \in DcFormIds, value \in {0, 1} : DcTamper(formId, value)
  \/ \E formId \in DcFormIds, filled \in BOOLEAN : DcFill(formId, filled)
  \/ \E formId \in DcFormIds : DcSubmit(formId)

\* C39: once the instance is initialised, and after any number of
\* refreshToken calls, the hidden csrf_token of every protected form that
\* nobody tampered with equals the token in memory and the token of the
\* cookie, and validateForm accepts such a form when it is not a Formspree
\* form; validateForm rejects whenever the submitted token or the cookie
\* token is missing or the two differ.
C39_DoubleSubmit ==
  /\ dcInstance.constructed =>
       \A f \in DcFormIds :
         (dcForms[f].protected /\ ~dcForms[f].tampered) =>
           /\ dcForms[f].input = dcInstance.token
           /\ dcForms[f].input = getCSRFCookie(CsrfState)
           /\ ~isFormspreeForm(f) => dcValidateForm(CsrfState, f)
  /\ (dcHist.op = "submit" /\ dcHist.accepted) =>
       /\ dcHist.submittedToken # 0
       /\ dcHist.cookieToken # 0
       /\ dcHist.submittedToken = dcHist.cookieToken

(***************************************************************************)
(* Specifications                                                          *)
(***************************************************************************)
\* no form on the page: the validator's init returns at once
FVIdle == FVInit /\ form = << >>

\* createFormRateLimiter(): the limiter a FormValidator constructs for itself
FormLimiter ==
  /\ now = 0
  /\ maxAttempts = 3
  /\ windowMs = 60000
  /\ attempts = << >>
  /\ calls = << >>

\* the validator on the contact form
FVStart == FVInit /\ form = ContactForm

\* the accordion with its default options and nothing open
ACIdle == ACInit /\ acOptions = [allowMultiple |-> FALSE, defaultOpen |-> << >>]

\* the page with the filter in use
InitPF == PFStart /\ RLIdle /\ FVIdle /\ ACIdle /\ MDInit /\ CSIdle /\ MTIdle /\ SHInit /\ CKInit /\ EHIdle /\ VLInit /\ CFInit /\ ARInit /\ AUIdle /\ BUInit /\ PGIdle /\ DCIdle

SpecPF == InitPF /\ [][PFNext]_vars

\* the page with the rate limiter in use
InitRL == RLInit /\ PFStart /\ FVIdle /\ ACIdle /\ MDInit /\ CSIdle /\ MTIdle /\ SHInit /\ CKInit /\ EHIdle /\ VLInit /\ CFInit /\ ARInit /\ AUIdle /\ BUInit /\ PGIdle /\ DCIdle

SpecRL == InitRL /\ [][RLNext]_vars

\* the filter driven through its API
InitFilter == FilterInit /\ RLIdle /\ FVIdle /\ ACIdle /\ MDInit /\ CSIdle /\ MTIdle /\ SHInit /\ CKInit /\ EHIdle /\ VLInit /\ CFInit /\ ARInit /\ AUIdle /\ BUInit /\ PGIdle /\ DCIdle

SpecFilter == InitFilter /\ [][FilterNext]_vars

\* the page with the contact form in use
InitFV == FVStart /\ FormLimiter /\ PFStart /\ ACIdle /\ MDInit /\ CSIdle /\ MTIdle /\ SHInit /\ CKInit /\ EHIdle /\ VLInit /\ CFInit /\ ARInit /\ AUIdle /\ BUInit /\ PGIdle /\ DCIdle

SpecFV == InitFV /\ [][FVNext]_vars

\* the contact form, used and then torn down
SpecTeardown == InitFV /\ [][TeardownNext]_vars

\* a form with one field, of any configuration: focus, typing and blur
FieldNext ==
  \/ \E f \in Ids(form) : FocusField(f)
  \/ Blur
  \/ \E f \in Ids(form) : \E v \in InputTexts(f) : Input(f, v)

InitField == FVInit /\ Len(form) = 1 /\ FormLimiter /\ PFStart /\ ACIdle /\ MDInit /\ CSIdle /\ MTIdle /\ SHInit /\ CKInit /\ EHIdle /\ VLInit /\ CFInit /\ ARInit /\ AUIdle /\ BUInit /\ PGIdle /\ DCIdle

SpecField == InitField /\ [][FieldNext]_vars

\* the page with an accordion in use
InitAC == ACInit /\ RLIdle /\ PFStart /\ FVIdle /\ MDInit /\ CSIdle /\ MTIdle /\ SHInit /\ CKInit /\ EHIdle /\ VLInit /\ CFInit /\ ARInit /\ AUIdle /\ BUInit /\ PGIdle /\ DCIdle

SpecAC == InitAC /\ [][ACNext]_vars

\* the page with the modal singleton in use
InitMD == MDInit /\ RLIdle /\ PFStart /\ FVIdle /\ ACIdle /\ CSIdle /\ MTIdle /\ SHInit /\ CKInit /\ EHIdle /\ VLInit /\ CFInit /\ ARInit /\ AUIdle /\ BUInit /\ PGIdle /\ DCIdle

SpecMD == InitMD /\ [][MDNext]_vars

\* the page with a comparison slider in use
InitCS == CSInit /\ RLIdle /\ PFStart /\ FVIdle /\ ACIdle /\ MDInit /\ MTIdle /\ SHInit /\ CKInit /\ EHIdle /\ VLInit /\ CFInit /\ ARInit /\ AUIdle /\ BUInit /\ PGIdle /\ DCIdle

SpecCS == InitCS /\ [][CSNext]_vars

\* the constructors on every page, and the modal opened by id
InitMT == MTInit /\ RLIdle /\ PFStart /\ FVIdle /\ ACIdle /\ MDInit /\ CSIdle /\ SHInit /\ CKInit /\ EHIdle /\ VLInit /\ CFInit /\ ARInit /\ AUIdle /\ BUInit /\ PGIdle /\ DCIdle

SpecMount == InitMT /\ [][MTNext]_vars

\* the submits of two forms of one page
InitSH == SHInit /\ RLIdle /\ PFStart /\ FVIdle /\ ACIdle /\ MDInit /\ CSIdle /\ MTIdle /\ CKInit /\ EHIdle /\ VLInit /\ CFInit /\ ARInit /\ AUIdle /\ BUInit /\ PGIdle /\ DCIdle

SpecShared == InitSH /\ [][SHNext]_vars

\* the limiter with its cleanup interval
InitCK == RLInit /\ maxAttempts = 2 /\ CKInit /\ PFStart /\ FVIdle /\ ACIdle /\ MDInit /\ CSIdle /\ MTIdle /\ SHInit /\ EHIdle /\ VLInit /\ CFInit /\ ARInit /\ AUIdle /\ BUInit /\ PGIdle /\ DCIdle

SpecCleanup == InitCK /\ [][CKNext]_vars

\* the error handler of a page
InitEH == EHInit /\ RLIdle /\ PFStart /\ FVIdle /\ ACIdle /\ MDInit /\ CSIdle /\ MTIdle /\ SHInit /\ CKInit /\ VLInit /\ CFInit /\ ARInit /\ AUIdle /\ BUInit /\ PGIdle /\ DCIdle

SpecEH == InitEH /\ [][EHNext]_vars

\* the validators called with any value and parameter
InitVL == VLInit /\ RLIdle /\ PFStart /\ FVIdle /\ ACIdle /\ MDInit /\ CSIdle /\ MTIdle /\ SHInit /\ CKInit /\ EHIdle /\ CFInit /\ ARInit /\ AUIdle /\ BUInit /\ PGIdle /\ DCIdle

SpecValidators == InitVL /\ [][VLNext]_vars

\* a form that is submitted until the limiter refuses, and after
InitRetry == FVInit /\ form \in RetryForms /\ FormLimiter /\ PFStart /\ ACIdle /\ MDInit /\ CSIdle /\ MTIdle /\ SHInit /\ CKInit /\ EHIdle /\ VLInit /\ CFInit /\ ARInit /\ AUIdle /\ BUInit /\ PGIdle /\ DCIdle

SpecRetry == InitRetry /\ [][RetryNext]_vars

\* the validator constructed with any options, and submitted
InitCF == CFInit /\ RLIdle /\ PFStart /\ FVIdle /\ ACIdle /\ MDInit /\ CSIdle /\ MTIdle /\ SHInit /\ CKInit /\ EHIdle /\ VLInit /\ ARInit /\ AUIdle /\ BUInit /\ PGIdle /\ DCIdle

SpecConfig == InitCF /\ [][CFNext]_vars

\* the live regions under announce, clearQueue and the delay timers
InitAR == ARInit /\ RLIdle /\ PFStart /\ FVIdle /\ ACIdle /\ MDInit /\ CSIdle /\ MTIdle /\ SHInit /\ CKInit /\ EHIdle /\ VLInit /\ CFInit /\ AUIdle /\ BUInit /\ PGIdle /\ DCIdle

SpecAria == InitAR /\ [][ARNext]_vars

\* the auth object under init, login, register, logout and the responses
InitAU == AUInit /\ RLIdle /\ PFStart /\ FVIdle /\ ACIdle /\ MDInit /\ CSIdle /\ MTIdle /\ SHInit /\ CKInit /\ EHIdle /\ VLInit /\ CFInit /\ ARInit /\ BUInit /\ PGIdle /\ DCIdle

SpecAuth == InitAU /\ [][AUNext]_vars

\* the two submit listeners on one form
InitBU == BUInit /\ RLIdle /\ PFStart /\ FVIdle /\ ACIdle /\ MDInit /\ CSIdle /\ MTIdle /\ SHInit /\ CKInit /\ EHIdle /\ VLInit /\ CFInit /\ ARInit /\ AUIdle /\ PGIdle /\ DCIdle

SpecButtons == InitBU /\ [][BUNext]_vars

\* the properties page from its embedded data to the filtered list
InitPG == PGInit /\ RLIdle /\ PFStart /\ FVIdle /\ ACIdle /\ MDInit /\ CSIdle /\ MTIdle /\ SHInit /\ CKInit /\ EHIdle /\ VLInit /\ CFInit /\ ARInit /\ AUIdle /\ BUInit /\ DCIdle

SpecPage == InitPG /\ [][PGNext]_vars

\* the double-submit cookie under init, refreshToken, time and submits
InitDC == DCInit /\ RLIdle /\ PFStart /\ FVIdle /\ ACIdle /\ MDInit /\ CSIdle /\ MTIdle /\ SHInit /\ CKInit /\ EHIdle /\ VLInit /\ CFInit /\ ARInit /\ AUIdle /\ BUInit /\ PGIdle

SpecCsrf == InitDC /\ [][DCNext]_vars

====
